---- MODULE Spec2Model ----
(***************************************************************************)
(* A model of the Financial Wellness analytics engine                      *)
(* (src/financial_mcp_server.py, class FinancialMCPServer), of the         *)
(* endpoints of the REST server (src/api_server.py), of the tool client    *)
(* of that server (src/client/mcp_client.py) and of the two chatbot        *)
(* clients (src/enhanced_financial_client.py: query routing;               *)
(* src/client/universal_client.py: query memory).                          *)
(*                                                                         *)
(* Conventions                                                             *)
(*  - A Python string is a TLA+ string; Chars gives its characters, so     *)
(*    that matching, comparison and parsing work on characters.            *)
(*  - A missing cell of the data frame (NaN) is the value NA; Python's     *)
(*    None is the value None.  A dict is a function whose DOMAIN is the    *)
(*    set of keys present.                                                 *)
(*  - A timestamp of the ledger is a day number, day 1 = 2024-01-01.       *)
(*  - An amount is a whole number of half currency units (125.50 is 251),  *)
(*    which every amount of the modelled data is; a budget is in whole     *)
(*    units, as in the source.  A quotient that the code computes in       *)
(*    floating point is kept as a fraction [num, den] in currency units;   *)
(*    den = 0 stands for the float results NaN (0/0) and Infinity (x/0).   *)
(*  - The free-text description column is carried through untouched by     *)
(*    every operation and is left out of the rows.                         *)
(***************************************************************************)
EXTENDS Integers, Sequences, FiniteSets, TLC

VARIABLES
    transactions_df,   \* FinancialMCPServer.transactions_df, the engine's ledger
    data,              \* the content of financial_data.json, the REST server's store
    call,              \* the call in progress: tool, arguments, clock reading
    result,            \* what the call returned to its caller
    query_memory       \* FinancialWellnessClient.query_memory, the chatbot's memory

vars == <<transactions_df, data, call, result, query_memory>>

\* ------------------------------------------------------------------ bounds
\* Longest CSV file (ledger) explored.
MaxLedger == 3
\* Longest transaction list of financial_data.json explored.
MaxStore == 2
\* Most purchases at one merchant in a ledger of the recommendation runs.
MaxRepeat == 6
\* Most transactions posted to the REST server in the ingestion runs.
MaxPosts == 3

\* ----------------------------------------------------------------- strings
NA == "<NA>"
None == "<None>"

Chars ==
    "Groceries" :> <<"G", "r", "o", "c", "e", "r", "i", "e", "s">> @@
    "Food & Dining" :> <<"F", "o", "o", "d", " ", "&", " ", "D", "i", "n", "i", "n", "g">> @@
    "Transportation" :> <<"T", "r", "a", "n", "s", "p", "o", "r", "t", "a", "t", "i", "o", "n">> @@
    "Entertainment" :> <<"E", "n", "t", "e", "r", "t", "a", "i", "n", "m", "e", "n", "t">> @@
    "Shopping" :> <<"S", "h", "o", "p", "p", "i", "n", "g">> @@
    "Healthcare" :> <<"H", "e", "a", "l", "t", "h", "c", "a", "r", "e">> @@
    "Utilities" :> <<"U", "t", "i", "l", "i", "t", "i", "e", "s">> @@
    "Rent" :> <<"R", "e", "n", "t">> @@
    "Savings" :> <<"S", "a", "v", "i", "n", "g", "s">> @@
    "Income" :> <<"I", "n", "c", "o", "m", "e">> @@
    "Whole Foods Market" :> <<"W", "h", "o", "l", "e", " ", "F", "o", "o", "d", "s", " ", "M", "a", "r", "k", "e", "t">> @@
    "Uber" :> <<"U", "b", "e", "r">> @@
    "Employer Inc" :> <<"E", "m", "p", "l", "o", "y", "e", "r", " ", "I", "n", "c">> @@
    "Uber Eats" :> <<"U", "b", "e", "r", " ", "E", "a", "t", "s">> @@
    "checking" :> <<"c", "h", "e", "c", "k", "i", "n", "g">> @@
    "credit" :> <<"c", "r", "e", "d", "i", "t">> @@
    "food" :> <<"f", "o", "o", "d">> @@
    "FOOD" :> <<"F", "O", "O", "D">> @@
    "." :> <<".">> @@
    "uber" :> <<"u", "b", "e", "r">> @@
    "2024-01-01" :> <<"2", "0", "2", "4", "-", "0", "1", "-", "0", "1">> @@
    "2024-01-08" :> <<"2", "0", "2", "4", "-", "0", "1", "-", "0", "8">> @@
    "2024-02-01" :> <<"2", "0", "2", "4", "-", "0", "2", "-", "0", "1">> @@
    "2024-03-01" :> <<"2", "0", "2", "4", "-", "0", "3", "-", "0", "1">> @@
    "not-a-date" :> <<"n", "o", "t", "-", "a", "-", "d", "a", "t", "e">> @@
    "Travel" :> <<"T", "r", "a", "v", "e", "l">> @@
    "chart" :> <<"c", "h", "a", "r", "t">> @@
    "Graph" :> <<"G", "r", "a", "p", "h">> @@
    "visualization" :> <<"v", "i", "s", "u", "a", "l", "i", "z", "a", "t", "i", "o", "n">> @@
    "Plotting" :> <<"P", "l", "o", "t", "t", "i", "n", "g">> @@
    "trend" :> <<"t", "r", "e", "n", "d">> @@
    "category" :> <<"c", "a", "t", "e", "g", "o", "r", "y">> @@
    "budget" :> <<"b", "u", "d", "g", "e", "t">> @@
    "merchant" :> <<"m", "e", "r", "c", "h", "a", "n", "t">> @@
    "spending" :> <<"s", "p", "e", "n", "d", "i", "n", "g">> @@
    "this" :> <<"t", "h", "i", "s">> @@
    "last" :> <<"l", "a", "s", "t">> @@
    "past" :> <<"p", "a", "s", "t">> @@
    "month" :> <<"m", "o", "n", "t", "h">> @@
    "week" :> <<"w", "e", "e", "k">> @@
    "graph" :> <<"g", "r", "a", "p", "h">> @@
    "plot" :> <<"p", "l", "o", "t">> @@
    "spending trend" :> <<"s", "p", "e", "n", "d", "i", "n", "g", " ", "t", "r", "e", "n", "d">> @@
    "daily trend" :> <<"d", "a", "i", "l", "y", " ", "t", "r", "e", "n", "d">> @@
    "weekly trend" :> <<"w", "e", "e", "k", "l", "y", " ", "t", "r", "e", "n", "d">> @@
    "monthly trend" :> <<"m", "o", "n", "t", "h", "l", "y", " ", "t", "r", "e", "n", "d">> @@
    "breakdown" :> <<"b", "r", "e", "a", "k", "d", "o", "w", "n">> @@
    "pie" :> <<"p", "i", "e">> @@
    "actual" :> <<"a", "c", "t", "u", "a", "l">> @@
    "comparison" :> <<"c", "o", "m", "p", "a", "r", "i", "s", "o", "n">> @@
    "store" :> <<"s", "t", "o", "r", "e">> @@
    "top merchants" :> <<"t", "o", "p", " ", "m", "e", "r", "c", "h", "a", "n", "t", "s">> @@
    "transaction" :> <<"t", "r", "a", "n", "s", "a", "c", "t", "i", "o", "n">> @@
    "purchase" :> <<"p", "u", "r", "c", "h", "a", "s", "e">> @@
    "expense" :> <<"e", "x", "p", "e", "n", "s", "e">> @@
    "income" :> <<"i", "n", "c", "o", "m", "e">> @@
    "spending analysis" :> <<"s", "p", "e", "n", "d", "i", "n", "g", " ", "a", "n", "a", "l", "y", "s", "i", "s">> @@
    "spending breakdown" :> <<"s", "p", "e", "n", "d", "i", "n", "g", " ", "b", "r", "e", "a", "k", "d", "o", "w", "n">> @@
    "category breakdown" :> <<"c", "a", "t", "e", "g", "o", "r", "y", " ", "b", "r", "e", "a", "k", "d", "o", "w", "n">> @@
    "how much spent" :> <<"h", "o", "w", " ", "m", "u", "c", "h", " ", "s", "p", "e", "n", "t">> @@
    "budget analysis" :> <<"b", "u", "d", "g", "e", "t", " ", "a", "n", "a", "l", "y", "s", "i", "s">> @@
    "over budget" :> <<"o", "v", "e", "r", " ", "b", "u", "d", "g", "e", "t">> @@
    "under budget" :> <<"u", "n", "d", "e", "r", " ", "b", "u", "d", "g", "e", "t">> @@
    "budget status" :> <<"b", "u", "d", "g", "e", "t", " ", "s", "t", "a", "t", "u", "s">> @@
    "recommendation" :> <<"r", "e", "c", "o", "m", "m", "e", "n", "d", "a", "t", "i", "o", "n">> @@
    "advice" :> <<"a", "d", "v", "i", "c", "e">> @@
    "suggestion" :> <<"s", "u", "g", "g", "e", "s", "t", "i", "o", "n">> @@
    "improve" :> <<"i", "m", "p", "r", "o", "v", "e">> @@
    "save money" :> <<"s", "a", "v", "e", " ", "m", "o", "n", "e", "y">> @@
    "where spent" :> <<"w", "h", "e", "r", "e", " ", "s", "p", "e", "n", "t">> @@
    "over time" :> <<"o", "v", "e", "r", " ", "t", "i", "m", "e">> @@
    "monthly" :> <<"m", "o", "n", "t", "h", "l", "y">> @@
    "weekly" :> <<"w", "e", "e", "k", "l", "y">> @@
    "this month" :> <<"t", "h", "i", "s", " ", "m", "o", "n", "t", "h">> @@
    "current month" :> <<"c", "u", "r", "r", "e", "n", "t", " ", "m", "o", "n", "t", "h">> @@
    "last month" :> <<"l", "a", "s", "t", " ", "m", "o", "n", "t", "h">> @@
    "this week" :> <<"t", "h", "i", "s", " ", "w", "e", "e", "k">> @@
    "last week" :> <<"l", "a", "s", "t", " ", "w", "e", "e", "k">> @@
    "last 30 days" :> <<"l", "a", "s", "t", " ", "3", "0", " ", "d", "a", "y", "s">> @@
    "past month" :> <<"p", "a", "s", "t", " ", "m", "o", "n", "t", "h">> @@
    "last 7 days" :> <<"l", "a", "s", "t", " ", "7", " ", "d", "a", "y", "s">> @@
    "past week" :> <<"p", "a", "s", "t", " ", "w", "e", "e", "k">> @@
    "2024-01-29" :> <<"2", "0", "2", "4", "-", "0", "1", "-", "2", "9">> @@
    "2024-01-31" :> <<"2", "0", "2", "4", "-", "0", "1", "-", "3", "1">> @@
    "2024-02-04" :> <<"2", "0", "2", "4", "-", "0", "2", "-", "0", "4">> @@
    "2024-02-05" :> <<"2", "0", "2", "4", "-", "0", "2", "-", "0", "5">> @@
    "" :> <<>>

CodePoint ==
    " " :> 32 @@ "&" :> 38 @@ "-" :> 45 @@ "." :> 46 @@ "0" :> 48 @@ "1" :> 49 @@ "2" :> 50 @@ "3" :> 51 @@ "4" :> 52 @@ "5" :> 53 @@ "7" :> 55 @@ "8" :> 56 @@ "9" :> 57 @@ "D" :> 68 @@ "E" :> 69 @@ "F" :> 70 @@ "G" :> 71 @@ "H" :> 72 @@ "I" :> 73 @@ "M" :> 77 @@ "O" :> 79 @@ "P" :> 80 @@ "R" :> 82 @@ "S" :> 83 @@ "T" :> 84 @@ "U" :> 85 @@ "W" :> 87 @@ "a" :> 97 @@ "b" :> 98 @@ "c" :> 99 @@ "d" :> 100 @@ "e" :> 101 @@ "f" :> 102 @@ "g" :> 103 @@ "h" :> 104 @@ "i" :> 105 @@ "k" :> 107 @@ "l" :> 108 @@ "m" :> 109 @@ "n" :> 110 @@ "o" :> 111 @@ "p" :> 112 @@ "r" :> 114 @@ "s" :> 115 @@ "t" :> 116 @@ "u" :> 117 @@ "v" :> 118 @@ "w" :> 119 @@ "x" :> 120 @@ "y" :> 121 @@ "z" :> 122

\* Python's str.lower / re.IGNORECASE on one character, as a code point.
Fold(c) == IF CodePoint[c] >= 65 /\ CodePoint[c] <= 90 THEN CodePoint[c] + 32 ELSE CodePoint[c]

\* Python's < on strings: lexicographic by code point.
RECURSIVE SeqLess(_, _)
SeqLess(a, b) ==
    IF b = <<>> THEN FALSE
    ELSE IF a = <<>> THEN TRUE
    ELSE IF CodePoint[Head(a)] # CodePoint[Head(b)] THEN CodePoint[Head(a)] < CodePoint[Head(b)]
    ELSE SeqLess(Tail(a), Tail(b))

StrLess(a, b) == SeqLess(Chars[a], Chars[b])

\* re.search(pat, s, re.IGNORECASE) for a pattern of literal characters and
\* the metacharacter "." (any character).
MatchAt(pat, s, i) ==
    \A j \in 1..Len(pat) : pat[j] = "." \/ Fold(pat[j]) = Fold(s[i + j])

ReSearch(pat, s) ==
    \E i \in 0..(Len(s) - Len(pat)) : MatchAt(pat, s, i)

\* Series.str.contains(pat, case=False, na=False) on one cell.
str_contains(cell, pat) ==
    IF cell = NA THEN FALSE ELSE ReSearch(Chars[pat], Chars[cell])

\* Truthiness of a Python argument value (a string or None).
Truthy(v) == v # None /\ v # ""

\* `key in args and args[key]`
Supplied(args, key) == key \in DOMAIN args /\ Truthy(args[key])

\* ------------------------------------------------------------------- dates
IsDigit(c) == CodePoint[c] >= 48 /\ CodePoint[c] <= 57
Digit(c) == CodePoint[c] - 48

\* Days of 2024 before the first of each month (the model's calendar is 2024).
DaysBeforeMonth == <<0, 31, 60, 91, 121, 152, 182, 213, 244, 274, 305, 335, 366>>

IsIsoShape(cs) ==
    /\ Len(cs) = 10
    /\ cs[5] = "-" /\ cs[8] = "-"
    /\ \A i \in {1, 2, 3, 4, 6, 7, 9, 10} : IsDigit(cs[i])

YearOf(cs) == Digit(cs[1]) * 1000 + Digit(cs[2]) * 100 + Digit(cs[3]) * 10 + Digit(cs[4])
MonthOf(cs) == Digit(cs[6]) * 10 + Digit(cs[7])
DayOf(cs) == Digit(cs[9]) * 10 + Digit(cs[10])

\* Whether pd.to_datetime(s) returns a timestamp (TRUE) or raises (FALSE),
\* for the YYYY-MM-DD strings of 2024 and for text that is no date.
DateParses(s) ==
    LET cs == Chars[s] IN
    /\ IsIsoShape(cs)
    /\ YearOf(cs) = 2024
    /\ MonthOf(cs) >= 1 /\ MonthOf(cs) <= 12
    /\ DayOf(cs) >= 1
    /\ DayOf(cs) <= DaysBeforeMonth[MonthOf(cs) + 1] - DaysBeforeMonth[MonthOf(cs)]

\* pd.to_datetime(s) for a string that parses: the day number.
to_datetime(s) ==
    LET cs == Chars[s] IN DaysBeforeMonth[MonthOf(cs)] + DayOf(cs)

\* Timestamp.to_period('M') and to_period('W') (weeks Monday..Sunday;
\* 2024-01-01 is a Monday) as period numbers of 2024.
to_period_M(d) == CHOOSE m \in 1..12 : DaysBeforeMonth[m] < d /\ d <= DaysBeforeMonth[m + 1]
to_period_W(d) == (d - 1) \div 7 + 1
to_period(d, freq) ==
    IF freq = "M" THEN to_period_M(d) ELSE IF freq = "W" THEN to_period_W(d) ELSE d

\* ------------------------------------------------------ outcomes of a body
\* A Python block either completes with a value or raises an exception.
Ok(v) == [ok |-> TRUE, value |-> v]
Raise(msg) == [ok |-> FALSE, error |-> msg]

\* try: <body> / except Exception as e: return {"success": False, "error": str(e)}
\* around a body whose value becomes the "data" of a successful reply.
TryExceptPropagates(body) ==
    IF body.ok THEN [success |-> TRUE, data |-> body.value]
    ELSE [raised |-> body.error]

TryExcept(body) ==
    IF body.ok THEN [success |-> TRUE, data |-> body.value]
    ELSE [success |-> FALSE, error |-> body.error]

\* ------------------------------------------------------------- the ledger
\* Rows of daily_transactions.csv as text cells; the first three are the
\* rows of create_sample_data.
CsvRows == {
    [transaction_id |-> "TXN001", date |-> "2024-01-01", amount |-> 251,
     category |-> "Groceries", transaction_type |-> "expense",
     merchant |-> "Whole Foods Market", account_type |-> "checking"],
    [transaction_id |-> "TXN002", date |-> "2024-01-01", amount |-> 90,
     category |-> "Transportation", transaction_type |-> "expense",
     merchant |-> "Uber", account_type |-> "checking"],
    [transaction_id |-> "TXN003", date |-> "2024-01-01", amount |-> 5000,
     category |-> "Income", transaction_type |-> "income",
     merchant |-> "Employer Inc", account_type |-> "checking"],
    [transaction_id |-> "TXN004", date |-> "2024-01-08", amount |-> 700,
     category |-> "Food & Dining", transaction_type |-> "expense",
     merchant |-> "Uber Eats", account_type |-> "credit"],
    [transaction_id |-> "TXN005", date |-> "2024-02-01", amount |-> 700,
     category |-> "Groceries", transaction_type |-> "expense",
     merchant |-> "Whole Foods Market", account_type |-> "checking"],
    [transaction_id |-> "TXN006", date |-> "2024-02-01", amount |-> 0,
     category |-> "Shopping", transaction_type |-> "expense",
     merchant |-> "Uber", account_type |-> "credit"],
    [transaction_id |-> "TXN007", date |-> "2024-03-01", amount |-> 20,
     category |-> NA, transaction_type |-> "expense",
     merchant |-> NA, account_type |-> NA],
    [transaction_id |-> "TXN008", date |-> "2024-01-08", amount |-> 20,
     category |-> "Income", transaction_type |-> "expense",
     merchant |-> "Employer Inc", account_type |-> "checking"]
}

\* A CSV file is a sequence of rows, or is missing.
NoFile == <<[missing |-> TRUE]>>

RECURSIVE SeqsUpTo(_, _)
SeqsUpTo(S, n) ==
    IF n = 0 THEN {<<>>}
    ELSE LET shorter == SeqsUpTo(S, n - 1) IN
         shorter \cup {Append(s, x) : s \in {t \in shorter : Len(t) = n - 1}, x \in S}

CsvFiles == SeqsUpTo(CsvRows, MaxLedger) \cup {NoFile}

create_sample_data ==
    LET row(id) == CHOOSE r \in CsvRows : r.transaction_id = id
        parsed(r) == [r EXCEPT !.date = to_datetime(r.date)]
    IN <<parsed(row("TXN001")), parsed(row("TXN002")), parsed(row("TXN003"))>>

\* pandas' NaT, the timestamp of an empty date cell: no day of the calendar.
\* Every comparison with NaT is False and groupby drops the rows whose key
\* is NaT.
NaT == 0

\* FinancialMCPServer.load_transactions: read the file and parse the date
\* column (an empty cell parses to NaT); on any exception fall back to the
\* sample data.
load_transactions(csv) ==
    IF csv = NoFile \/ \E i \in 1..Len(csv) : csv[i].date # NA /\ ~DateParses(csv[i].date)
    THEN create_sample_data
    ELSE [i \in 1..Len(csv) |->
            [csv[i] EXCEPT !.date = IF csv[i].date = NA THEN NaT
                                    ELSE to_datetime(csv[i].date)]]

category_budgets == <<
    <<"Groceries", 400>>, <<"Food & Dining", 300>>, <<"Transportation", 200>>,
    <<"Entertainment", 150>>, <<"Shopping", 250>>, <<"Healthcare", 100>>,
    <<"Utilities", 200>>, <<"Rent", 1200>>, <<"Savings", 500>>, <<"Income", 0>> >>

\* ------------------------------------------------------- frame operations
RECURSIVE SumAmount(_)
SumAmount(rows) ==
    IF rows = <<>> THEN 0 ELSE Head(rows).amount + SumAmount(Tail(rows))

\* df[df[col] >= start] and df[df[col] <= end] on the date column.
FilterFromStart(rows, start) == SelectSeq(rows, LAMBDA r : r.date # NaT /\ r.date >= start)
FilterToEndExclusive(rows, end) == SelectSeq(rows, LAMBDA r : r.date # NaT /\ r.date < end)
FilterToEnd(rows, end) == SelectSeq(rows, LAMBDA r : r.date # NaT /\ r.date <= end)

\* ------------------------------------------------------- get_transactions
\* read_csv gives a column whose cells are all missing the dtype float64, and
\* the .str accessor of such a column raises AttributeError; a column with a
\* string in it, or with no row at all, has dtype object.  Selecting rows
\* keeps the dtype, so the test is on the column as loaded.
StrAccessorRaises(df, col) == df # <<>> /\ \A i \in DOMAIN df : df[i][col] = NA

\* The body with total_count and total_amount taken before the filters.
get_transactions_body_TotalsOfLedger(df, args) ==
    IF (Supplied(args, "category") /\ StrAccessorRaises(df, "category"))
       \/ (Supplied(args, "merchant") /\ StrAccessorRaises(df, "merchant"))
       \/ (Supplied(args, "start_date") /\ ~DateParses(args["start_date"]))
       \/ (Supplied(args, "end_date") /\ ~DateParses(args["end_date"]))
    THEN Raise("error")
    ELSE Ok([transactions |->
                SelectSeq(df, LAMBDA r :
                    /\ Supplied(args, "category") => str_contains(r.category, args["category"])
                    /\ Supplied(args, "type") => r.transaction_type = args["type"]
                    /\ Supplied(args, "start_date") =>
                           (r.date # NaT /\ r.date >= to_datetime(args["start_date"]))
                    /\ Supplied(args, "end_date") =>
                           (r.date # NaT /\ r.date <= to_datetime(args["end_date"]))
                    /\ Supplied(args, "merchant") => str_contains(r.merchant, args["merchant"])),
             total_count |-> Len(df),
             total_amount |-> SumAmount(df),
             filters_applied |-> args])

get_transactions_body(df, args) ==
    LET df1 == IF Supplied(args, "category")
               THEN SelectSeq(df, LAMBDA r : str_contains(r.category, args["category"]))
               ELSE df
        df2 == IF Supplied(args, "type")
               THEN SelectSeq(df1, LAMBDA r : r.transaction_type = args["type"])
               ELSE df1
        df3 == IF Supplied(args, "start_date")
               THEN FilterFromStart(df2, to_datetime(args["start_date"]))
               ELSE df2
        df4 == IF Supplied(args, "end_date")
               THEN FilterToEnd(df3, to_datetime(args["end_date"]))
               ELSE df3
        df5 == IF Supplied(args, "merchant")
               THEN SelectSeq(df4, LAMBDA r : str_contains(r.merchant, args["merchant"]))
               ELSE df4
    IN  IF Supplied(args, "category") /\ StrAccessorRaises(df, "category")
        THEN Raise("Can only use .str accessor with string values!")
        ELSE IF Supplied(args, "start_date") /\ ~DateParses(args["start_date"])
        THEN Raise("Unknown datetime string format")
        ELSE IF Supplied(args, "end_date") /\ ~DateParses(args["end_date"])
        THEN Raise("Unknown datetime string format")
        ELSE IF Supplied(args, "merchant") /\ StrAccessorRaises(df, "merchant")
        THEN Raise("Can only use .str accessor with string values!")
        ELSE Ok([transactions |-> df5,
                 total_count |-> Len(df5),
                 total_amount |-> SumAmount(df5),
                 filters_applied |-> args])

get_transactions(df, args) == {TryExcept(get_transactions_body(df, args))}

\* ------------------------------------------------------ groupby and sorting
\* The group keys of df.groupby(col): the distinct values of the column,
\* missing values dropped (dropna=True is the default).
GroupKeys(rows, col) == {rows[i][col] : i \in DOMAIN rows} \ {NA}

\* The rows of one group.
Group(rows, col, k) == SelectSeq(rows, LAMBDA r : r[col] = k)

\* groupby sorts its keys ascending (sort=True is the default).
RECURSIVE SortedStrs(_)
SortedStrs(S) ==
    IF S = {} THEN <<>>
    ELSE LET m == CHOOSE x \in S : \A y \in S \ {x} : StrLess(x, y)
         IN <<m>> \o SortedStrs(S \ {m})

RECURSIVE SortedInts(_)
SortedInts(S) ==
    IF S = {} THEN <<>>
    ELSE LET m == CHOOSE x \in S : \A y \in S : x <= y
         IN <<m>> \o SortedInts(S \ {m})

Perms(n) == {p \in [1..n -> 1..n] : \A i, j \in 1..n : p[i] = p[j] => i = j}

\* sort_values(by, ascending=False) with the default kind='quicksort', which
\* is not a stable sort: any arrangement with non-increasing values of
\* `by` can result, whatever the order of equal values.
\* `by` is the sorted column: the value of each entry of seq, in seq's order.
sort_values_desc(seq, by) ==
    {[i \in 1..Len(seq) |-> seq[p[i]]] : p \in
        {q \in Perms(Len(seq)) :
            \A i \in 1..(Len(seq) - 1) : by[q[i]] >= by[q[i + 1]]}}

Head10(seq) == IF Len(seq) > 10 THEN SubSeq(seq, 1, 10) ELSE seq

\* df.groupby(col)['amount'].sum() as an ordered mapping (key, sum).
GroupSums(rows, col) ==
    LET ks == SortedStrs(GroupKeys(rows, col))
    IN [i \in 1..Len(ks) |-> <<ks[i], SumAmount(Group(rows, col, ks[i]))>>]

\* df.groupby(<date or its period>)['amount'].sum(); freq is "D" for the date
\* itself, "W" or "M" for dt.to_period(freq).
GroupSumsByPeriod(rows, freq) ==
    LET dated == SelectSeq(rows, LAMBDA r : r.date # NaT)
        ks == SortedInts({to_period(dated[i].date, freq) : i \in DOMAIN dated})
    IN [i \in 1..Len(ks) |->
          <<ks[i], SumAmount(SelectSeq(dated, LAMBDA r : to_period(r.date, freq) = ks[i]))>>]

\* The date-range filter shared by the analyses; NoError when both bounds
\* parse or are not supplied.
DateArgsParse(args) ==
    /\ Supplied(args, "start_date") => DateParses(args["start_date"])
    /\ Supplied(args, "end_date") => DateParses(args["end_date"])

DateRange(rows, args) ==
    LET a == IF Supplied(args, "start_date")
             THEN FilterFromStart(rows, to_datetime(args["start_date"]))
             ELSE rows
    IN IF Supplied(args, "end_date")
       THEN FilterToEnd(a, to_datetime(args["end_date"]))
       ELSE a

OfType(rows, t) == SelectSeq(rows, LAMBDA r : r.transaction_type = t)

\* -------------------------------------------------- get_spending_analysis
\* expenses_df.groupby('category')['amount'].agg(['sum', 'count']).reset_index()
CategorySpending(expenses_df) ==
    LET ks == SortedStrs(GroupKeys(expenses_df, "category"))
    IN [i \in 1..Len(ks) |->
          [category |-> ks[i],
           total_amount |-> SumAmount(Group(expenses_df, "category", ks[i])),
           transaction_count |-> Len(Group(expenses_df, "category", ks[i]))]]

SummaryNetSwapped(expenses_df, income_df) ==
    [total_expenses |-> SumAmount(expenses_df),
     total_income |-> SumAmount(income_df),
     net_income |-> SumAmount(expenses_df) - SumAmount(income_df),
     expense_count |-> Len(expenses_df),
     income_count |-> Len(income_df)]

Summary(expenses_df, income_df) ==
    [total_expenses |-> SumAmount(expenses_df),
     total_income |-> SumAmount(income_df),
     net_income |-> SumAmount(income_df) - SumAmount(expenses_df),
     expense_count |-> Len(expenses_df),
     income_count |-> Len(income_df)]

get_spending_analysis(transactions, args) ==
    IF ~DateArgsParse(args)
    THEN {TryExcept(Raise("Unknown datetime string format"))}
    ELSE
    LET df == DateRange(transactions, args)
        expenses_df == OfType(df, "expense")
        income_df == OfType(df, "income")
    IN {TryExcept(Ok(
           [summary |-> Summary(expenses_df, income_df),
            category_breakdown |-> category_spending,
            monthly_trend |-> GroupSumsByPeriod(expenses_df, "M"),
            top_merchants |-> Head10(top_merchants),
            account_breakdown |-> GroupSums(expenses_df, "account_type")])) :
         category_spending \in
            LET cs == CategorySpending(expenses_df)
            IN sort_values_desc(cs, [i \in DOMAIN cs |-> cs[i].total_amount]),
         top_merchants \in
            LET ms == GroupSums(expenses_df, "merchant")
            IN sort_values_desc(ms, [i \in DOMAIN ms |-> ms[i][2]])}

\* ----------------------------------------------------- get_budget_analysis
\* A float quotient a / b in currency units.
Frac(a, b) == [num |-> a, den |-> b]
IsNaN(q) == q.den = 0 /\ q.num = 0
IsInf(q) == q.den = 0 /\ q.num # 0
IsFinite(q) == q.den # 0

\* A budget in the amounts' unit.
ToMinor(units) == units * 2

\* `category in category_spending` and category_spending[category] on the
\* Series df.groupby('category')['amount'].sum().
InSeries(series, k) == \E i \in DOMAIN series : series[i][1] = k
SeriesAt(series, k) == (CHOOSE i \in DOMAIN series : series[i][1] = k)

RECURSIVE SumSeries(_)
SumSeries(series) ==
    IF series = <<>> THEN 0 ELSE Head(series)[2] + SumSeries(Tail(series))

RECURSIVE SumBudgets(_)
SumBudgets(budgets) ==
    IF budgets = <<>> THEN 0 ELSE Head(budgets)[2] + SumBudgets(Tail(budgets))

\* The entry of one budgeted category (lines 181-202).
BudgetEntry(category, budget, category_spending) ==
    IF InSeries(category_spending, category)
    THEN LET spent == category_spending[SeriesAt(category_spending, category)][2] IN
         [category |-> category,
          budget |-> budget,
          spent |-> spent,
          remaining |-> ToMinor(budget) - spent,
          percentage_used |-> IF budget > 0 THEN Frac(spent * 50, budget) ELSE Frac(0, 1),
          status |-> IF spent > ToMinor(budget) THEN "over_budget"
                     ELSE IF spent * 5 < budget * 8 THEN "under_budget"
                     ELSE "on_track"]
    ELSE [category |-> category,
          budget |-> budget,
          spent |-> 0,
          remaining |-> ToMinor(budget),
          percentage_used |-> Frac(0, 1),
          status |-> "no_spending"]

\* for category, budget in self.category_budgets.items(): ... append(...)
BudgetEntriesOnlySpent(budgets, category_spending) ==
    LET kept == SelectSeq(budgets, LAMBDA b : InSeries(category_spending, b[1]))
    IN [i \in 1..Len(kept) |-> BudgetEntry(kept[i][1], kept[i][2], category_spending)]

BudgetEntries(budgets, category_spending) ==
    [i \in 1..Len(budgets) |-> BudgetEntry(budgets[i][1], budgets[i][2], category_spending)]

get_budget_analysis(transactions, args) ==
    IF ~DateArgsParse(args)
    THEN {TryExcept(Raise("Unknown datetime string format"))}
    ELSE
    LET expenses_df == DateRange(OfType(transactions, "expense"), args)
        category_spending == GroupSums(expenses_df, "category")
    IN {TryExcept(Ok(
           [budget_analysis |-> BudgetEntries(category_budgets, category_spending),
            total_budget |-> SumBudgets(category_budgets),
            total_spent |-> SumSeries(category_spending),
            overall_remaining |->
                ToMinor(SumBudgets(category_budgets)) - SumSeries(category_spending)]))}

\* -------------------------------------------- get_spending_recommendations
\* expenses_df[expenses_df['date'] >= datetime.now() - timedelta(days=30)]:
\* ledger dates are midnights, `now` is [day, midnight], so a row dated
\* exactly 30 days before today is kept only when now is itself a midnight.
DefaultWindowStart(now) == IF now.midnight THEN now.day - 30 ELSE now.day - 29

RecentExpenses(expenses_df, args, now) ==
    IF Supplied(args, "start_date")
    THEN FilterFromStart(expenses_df, to_datetime(args["start_date"]))
    ELSE FilterFromStart(expenses_df, DefaultWindowStart(now))

BudgetOf(category) ==
    category_budgets[CHOOSE i \in DOMAIN category_budgets : category_budgets[i][1] = category][2]

IsBudgeted(category) == \E i \in DOMAIN category_budgets : category_budgets[i][1] = category

\* The alerts with a category that has no budget given the budget 0
\* (self.category_budgets.get(category, 0)).
OverspendingAlertsDefaultZero(category_spending) ==
    LET budget(c) == IF IsBudgeted(c) THEN BudgetOf(c) ELSE 0
        over == SelectSeq(category_spending, LAMBDA g : g[2] > ToMinor(budget(g[1])))
    IN [i \in 1..Len(over) |->
          [type |-> "overspending_alert",
           category |-> over[i][1],
           spent |-> over[i][2],
           over_by |-> over[i][2] - ToMinor(budget(over[i][1])),
           per_day |-> Frac(over[i][2] - ToMinor(budget(over[i][1])), 60)]]

\* Lines 236-246: one alert for each category of the window over its budget.
OverspendingAlerts(category_spending) ==
    LET over == SelectSeq(category_spending,
                    LAMBDA g : IsBudgeted(g[1]) /\ g[2] > ToMinor(BudgetOf(g[1])))
    IN [i \in 1..Len(over) |->
          [type |-> "overspending_alert",
           category |-> over[i][1],
           spent |-> over[i][2],
           over_by |-> over[i][2] - ToMinor(BudgetOf(over[i][1])),
           per_day |-> Frac(over[i][2] - ToMinor(BudgetOf(over[i][1])), 60)]]

\* The rule with the threshold test written >= 5.
FrequentPurchasesFromFive(recent_expenses) ==
    LET ks == SortedStrs(GroupKeys(recent_expenses, "merchant"))
        frequent == SelectSeq(ks, LAMBDA m : Len(Group(recent_expenses, "merchant", m)) >= 5)
    IN [i \in 1..Len(frequent) |->
          [type |-> "frequent_purchases",
           merchant |-> frequent[i],
           count |-> Len(Group(recent_expenses, "merchant", frequent[i])),
           total_spent |-> SumAmount(Group(recent_expenses, "merchant", frequent[i]))]]

\* Lines 248-259: merchants with more than 5 purchases in the window.
FrequentPurchases(recent_expenses) ==
    LET ks == SortedStrs(GroupKeys(recent_expenses, "merchant"))
        frequent == SelectSeq(ks, LAMBDA m : Len(Group(recent_expenses, "merchant", m)) > 5)
    IN [i \in 1..Len(frequent) |->
          [type |-> "frequent_purchases",
           merchant |-> frequent[i],
           count |-> Len(Group(recent_expenses, "merchant", frequent[i])),
           total_spent |-> SumAmount(Group(recent_expenses, "merchant", frequent[i]))]]

\* Lines 261-267: avg_daily_spending = sum / 30, alert when it exceeds 100.
HighDailySpending(recent_expenses) ==
    IF SumAmount(recent_expenses) > ToMinor(100) * 30
    THEN <<[type |-> "high_daily_spending",
            avg_daily_spending |-> Frac(SumAmount(recent_expenses), 60)]>>
    ELSE <<>>

\* Lines 269-281: the savings rate over the whole ledger.
SavingsRate(total_income, total_expenses) ==
    IF total_income > 0
    THEN Frac((total_income - total_expenses) * 100, total_income)
    ELSE Frac(0, 1)

LowSavingsRate(df, expenses_df) ==
    LET income_df == OfType(df, "income")
        savings_rate == SavingsRate(SumAmount(income_df), SumAmount(expenses_df))
    IN IF Len(income_df) > 0 /\ savings_rate.num < 20 * savings_rate.den
       THEN <<[type |-> "low_savings_rate", savings_rate |-> savings_rate]>>
       ELSE <<>>

\* The rules chained with elif: a later rule is tried only when no earlier
\* one has fired.
get_spending_recommendations_Elif(df, args, now) ==
    IF Supplied(args, "start_date") /\ ~DateParses(args["start_date"])
    THEN {TryExcept(Raise("Unknown datetime string format"))}
    ELSE
    LET expenses_df == OfType(df, "expense")
        recent_expenses == RecentExpenses(expenses_df, args, now)
        category_spending == GroupSums(recent_expenses, "category")
        r1 == OverspendingAlerts(category_spending)
        r2 == IF r1 = <<>> THEN FrequentPurchases(recent_expenses) ELSE r1
        r3 == IF r2 = <<>> THEN HighDailySpending(recent_expenses) ELSE r2
        recommendations == IF r3 = <<>> THEN LowSavingsRate(df, expenses_df) ELSE r3
    IN {TryExcept(Ok(
           [recommendations |-> recommendations,
            analysis_period |-> Len(recent_expenses),
            total_recommendations |-> Len(recommendations)]))}

get_spending_recommendations(df, args, now) ==
    IF Supplied(args, "start_date") /\ ~DateParses(args["start_date"])
    THEN {TryExcept(Raise("Unknown datetime string format"))}
    ELSE
    LET expenses_df == OfType(df, "expense")
        recent_expenses == RecentExpenses(expenses_df, args, now)
        category_spending == GroupSums(recent_expenses, "category")
        recommendations ==
            OverspendingAlerts(category_spending)
            \o FrequentPurchases(recent_expenses)
            \o HighDailySpending(recent_expenses)
            \o LowSavingsRate(df, expenses_df)
    IN {TryExcept(Ok(
           [recommendations |-> recommendations,
            analysis_period |-> Len(recent_expenses),
            total_recommendations |-> Len(recommendations)]))}

\* --------------------------------------------------- get_merchant_analysis
\* groupby(...)['category'].first(): the first value that is not missing.
FirstValid(rows, col) ==
    IF \A i \in DOMAIN rows : rows[i][col] = NA THEN NA
    ELSE rows[CHOOSE i \in DOMAIN rows :
                 rows[i][col] # NA /\ \A j \in 1..(i - 1) : rows[j][col] = NA][col]

\* min and max of the dates of a group skip NaT (and are NaT when every date is).
MinDate(rows) ==
    LET dates == {rows[i].date : i \in DOMAIN rows} \ {NaT}
    IN IF dates = {} THEN NaT ELSE CHOOSE d \in dates : \A e \in dates : d <= e
MaxDate(rows) ==
    LET dates == {rows[i].date : i \in DOMAIN rows} \ {NaT}
    IN IF dates = {} THEN NaT ELSE CHOOSE d \in dates : \A e \in dates : d >= e

MerchantRows(expenses_df) ==
    LET ks == SortedStrs(GroupKeys(expenses_df, "merchant"))
    IN [i \in 1..Len(ks) |->
          LET g == Group(expenses_df, "merchant", ks[i]) IN
          [merchant |-> ks[i],
           total_spent |-> SumAmount(g),
           transaction_count |-> Len(g),
           avg_amount |-> Frac(SumAmount(g), 2 * Len(g)),
           category |-> FirstValid(g, "category"),
           first_transaction |-> MinDate(g),
           last_transaction |-> MaxDate(g)]]

RECURSIVE SumTotalSpent(_)
SumTotalSpent(rows) ==
    IF rows = <<>> THEN 0 ELSE Head(rows).total_spent + SumTotalSpent(Tail(rows))

get_merchant_analysis(transactions, args) ==
    IF ~DateArgsParse(args)
    THEN {TryExcept(Raise("Unknown datetime string format"))}
    ELSE
    LET expenses_df == DateRange(OfType(transactions, "expense"), args)
    IN {TryExcept(Ok(
           [merchant_analysis |-> merchant_data,
            total_merchants |-> Len(merchant_data),
            total_spent |-> SumTotalSpent(merchant_data)])) :
         merchant_data \in
            LET ms == MerchantRows(expenses_df)
            IN sort_values_desc(ms, [i \in DOMAIN ms |-> ms[i].total_spent])}

\* ------------------------------------------------------ get_trend_analysis
RECURSIVE SumSquares(_)
SumSquares(series) ==
    IF series = <<>> THEN 0 ELSE Head(series)[2] * Head(series)[2] + SumSquares(Tail(series))

\* Series.mean(): sum / count, NaN (0/0) for an empty series.
Mean(series) == Frac(SumSeries(series), 2 * Len(series))

\* The square of Series.std(), whose default is ddof=1:
\* sum((x - mean)^2) / (n - 1) = (n*sum(x^2) - sum(x)^2) / (n*(n - 1)),
\* in squared currency units; NaN (0/0) for fewer than two values.
StdSquared(series) ==
    LET n == Len(series) IN
    Frac(n * SumSquares(series) - SumSeries(series) * SumSeries(series), 4 * n * (n - 1))

\* Series.pct_change(): element i is series[i] / series[i-1] - 1 for i > 1
\* (position by position in the series); the first element is missing.
PctChange(series) ==
    [i \in 1..(Len(series) - 1) |->
        Frac(series[i + 1][2] - series[i][2], series[i][2])]

FracAdd(a, b) == Frac(a.num * b.den + b.num * a.den, a.den * b.den)

RECURSIVE FracSum(_)
FracSum(qs) == IF qs = <<>> THEN Frac(0, 1) ELSE FracAdd(Head(qs), FracSum(Tail(qs)))

\* .dropna().mean() of the growth rates: NaN entries are dropped, infinite
\* ones are not.
MeanOfValid(qs) ==
    LET valid == SelectSeq(qs, LAMBDA q : ~IsNaN(q))
        total == FracSum(valid)
    IN IF \E i \in DOMAIN valid : IsInf(valid[i]) THEN Frac(1, 0)
       ELSE Frac(total.num, total.den * Len(valid))

AvgMonthlyGrowth(monthly_spending) ==
    IF Len(monthly_spending) > 1
    THEN MeanOfValid(PctChange(monthly_spending))
    ELSE Frac(0, 1)

\* groupby([month, 'category'])['amount'].sum().unstack(fill_value=0).to_dict():
\* for each category, the sum of each month that has a categorised, dated
\* expense.
CategoryMonthly(expenses_df) ==
    LET known == SelectSeq(expenses_df, LAMBDA r : r.category # NA /\ r.date # NaT)
        cats == SortedStrs(GroupKeys(known, "category"))
        months == SortedInts({to_period_M(known[i].date) : i \in DOMAIN known})
    IN [c \in 1..Len(cats) |->
          <<cats[c],
            [m \in 1..Len(months) |->
               <<months[m],
                 SumAmount(SelectSeq(known, LAMBDA r :
                     r.category = cats[c] /\ to_period_M(r.date) = months[m]))>>]>>]

get_trend_analysis(transactions, args) ==
    IF ~DateArgsParse(args)
    THEN {TryExcept(Raise("Unknown datetime string format"))}
    ELSE
    LET expenses_df == DateRange(OfType(transactions, "expense"), args)
        daily_spending == GroupSumsByPeriod(expenses_df, "D")
        weekly_spending == GroupSumsByPeriod(expenses_df, "W")
        monthly_spending == GroupSumsByPeriod(expenses_df, "M")
    IN {TryExcept(Ok(
           [daily_trend |-> daily_spending,
            weekly_trend |-> weekly_spending,
            monthly_trend |-> monthly_spending,
            category_trends |-> CategoryMonthly(expenses_df),
            trend_metrics |->
               [avg_daily_spending |-> Mean(daily_spending),
                avg_weekly_spending |-> Mean(weekly_spending),
                avg_monthly_spending |-> Mean(monthly_spending),
                avg_monthly_growth |-> AvgMonthlyGrowth(monthly_spending),
                spending_volatility_squared |-> StdSquared(daily_spending)]]))}

\* --------------------------------------------------------- generate_chart
ChartTypes == {"category_breakdown", "spending_trend", "budget_vs_actual", "merchant_analysis"}

\* The four chart builders read the whole ledger (no date filter).  What a
\* builder can hand to matplotlib: the points in plotting order, each a label
\* with its value (for the budget chart: category, budget, actual).
ChartSeries(transactions, chart_type) ==
    LET expenses_df == OfType(transactions, "expense")
        category_spending == GroupSums(expenses_df, "category")
        merchant_spending == GroupSums(expenses_df, "merchant")
        budgeted == SelectSeq(category_budgets, LAMBDA b : InSeries(category_spending, b[1]))
    IN CASE chart_type = "category_breakdown" -> {category_spending}
         [] chart_type = "spending_trend" -> {GroupSumsByPeriod(expenses_df, "D")}
         [] chart_type = "budget_vs_actual" ->
               {[i \in DOMAIN budgeted |->
                   <<budgeted[i][1], budgeted[i][2],
                     category_spending[SeriesAt(category_spending, budgeted[i][1])][2]>>]}
         [] chart_type = "merchant_analysis" ->
               {Head10(sorted) :
                  sorted \in sort_values_desc(merchant_spending,
                                [i \in DOMAIN merchant_spending |-> merchant_spending[i][2]])}

\* The number of points a builder reports in its reply.
ChartPoints(transactions, chart_type) ==
    LET points == Len(CHOOSE series \in ChartSeries(transactions, chart_type) : TRUE) IN
    CASE chart_type = "category_breakdown" -> [total_categories |-> points]
      [] chart_type = "spending_trend" -> [data_points |-> points]
      [] chart_type = "budget_vs_actual" -> [categories_compared |-> points]
      [] chart_type = "merchant_analysis" -> [merchants_shown |-> points]

\* generate_chart returns the builder's reply as it is; what the builder or
\* os.makedirs / savefig raises is caught by generate_chart's own handler.
\* Whether the rendering library fails is the environment's choice.
GenerateChartReply(transactions, chart_type, renders) ==
    IF chart_type \notin ChartTypes
    THEN Ok([success |-> FALSE, error |-> "Unknown chart type"])
    ELSE IF ~renders
    THEN Raise("cannot save figure")
    ELSE Ok([success |-> TRUE,
             data |-> [chart_path |-> chart_type, chart_type |-> chart_type]
                      @@ ChartPoints(transactions, chart_type)])

ReturnOrCatch(body) ==
    IF body.ok THEN body.value ELSE [success |-> FALSE, error |-> body.error]

generate_chart(transactions, args) ==
    LET chart_type == IF "chart_type" \in DOMAIN args
                      THEN args["chart_type"] ELSE "category_breakdown"
    IN {ReturnOrCatch(GenerateChartReply(transactions, chart_type, renders)) :
          renders \in BOOLEAN}

\* --------------------------------------------------------------- call_tool
call_tool(transactions, tool_name, args, now) ==
    CASE tool_name = "get_transactions" -> get_transactions(transactions, args)
      [] tool_name = "get_spending_analysis" -> get_spending_analysis(transactions, args)
      [] tool_name = "get_budget_analysis" -> get_budget_analysis(transactions, args)
      [] tool_name = "get_spending_recommendations" ->
            get_spending_recommendations(transactions, args, now)
      [] tool_name = "get_merchant_analysis" -> get_merchant_analysis(transactions, args)
      [] tool_name = "get_trend_analysis" -> get_trend_analysis(transactions, args)
      [] tool_name = "generate_chart" -> generate_chart(transactions, args)
      [] OTHER -> {[success |-> FALSE, error |-> "Unknown tool"]}

\* ------------------------------------------------------------- the inputs
Absent == "<absent>"

\* The dict holding the keys of `choice` that are not Absent.
MkArgs(choice) == [k \in {x \in DOMAIN choice : choice[x] # Absent} |-> choice[k]]

\* Filter specifications for get_transactions: every combination of the five
\* predicates, and specifications with no predicate, malformed dates, an
\* upper-case pattern and an empty date range.
FilterSpecs ==
    {MkArgs(c) : c \in [category : {Absent, "food", "."},
                        type : {Absent, "expense"},
                        start_date : {Absent, "2024-01-08"},
                        end_date : {Absent, "2024-01-08"},
                        merchant : {Absent, "uber"}]}
    \cup {[category |-> None, type |-> ""],
          [limit |-> "5"],
          [category |-> "FOOD"],
          [type |-> "income"],
          [start_date |-> "not-a-date"],
          [end_date |-> "not-a-date"],
          [start_date |-> "2024-02-01", end_date |-> "2024-01-08"]}

\* Date ranges for the analyses.
DateSpecs ==
    {MkArgs(c) : c \in [start_date : {Absent, "2024-01-08", "not-a-date"},
                        end_date : {Absent, "2024-01-08"}]}
    \cup {[start_date |-> "2024-02-01", end_date |-> "2024-01-08"],
          [end_date |-> "not-a-date"]}

ChartSpecs == {[chart_type |-> t] : t \in ChartTypes \cup {"pie"}} \cup {<<>>}

\* Readings of datetime.now(): 2024-02-07 at midnight and later that day,
\* and a day long after the last row.
Clock == {[day |-> 38, midnight |-> TRUE], [day |-> 38, midnight |-> FALSE],
          [day |-> 200, midnight |-> FALSE]}

NoClock == [day |-> 0, midnight |-> TRUE]

NoCall == [tool |-> None, args |-> <<>>, now |-> NoClock]
NoResult == [pending |-> TRUE]

\* ------------------------------------------- the REST server's listing
\* Transactions of financial_data.json (Transaction.dict(); the description
\* and tags are carried through untouched and left out).
StoredTransactions == {
    [id |-> 1, date |-> "2024-01-01", amount |-> 251,
     category |-> "Groceries", type |-> "expense"],
    [id |-> 2, date |-> "2024-01-08", amount |-> 700,
     category |-> "Food & Dining", type |-> "expense"],
    [id |-> 3, date |-> "2024-01-08", amount |-> 5000,
     category |-> "Income", type |-> "income"],
    [id |-> 4, date |-> "2024-02-01", amount |-> 90,
     category |-> "Transportation", type |-> "expense"]
}

\* load_data() when the file does not exist.
EmptyData ==
    [transactions |-> <<>>, budgets |-> <<>>, savings_goals |-> <<>>,
     user_profile |-> <<>>, analytics |-> <<>>]

DataFiles == {[EmptyData EXCEPT !.transactions = ts] : ts \in SeqsUpTo(StoredTransactions, MaxStore)}

\* Python's >= and <= on two strings.
StrGe(a, b) == ~StrLess(a, b)
StrLe(a, b) == ~StrLess(b, a)

\* GET /transactions: a query parameter that is None or empty is no filter.
api_get_transactions(store, category, type, start_date, end_date) ==
    LET t0 == store.transactions
        t1 == IF Truthy(category)
              THEN SelectSeq(t0, LAMBDA t : t.category = category) ELSE t0
        t2 == IF Truthy(type)
              THEN SelectSeq(t1, LAMBDA t : t.type = type) ELSE t1
        t3 == IF Truthy(start_date)
              THEN SelectSeq(t2, LAMBDA t : StrGe(t.date, start_date)) ELSE t2
        t4 == IF Truthy(end_date)
              THEN SelectSeq(t3, LAMBDA t : StrLe(t.date, end_date)) ELSE t3
    IN [transactions |-> t4]

ApiQueries ==
    [category : {None, "food", "Food & Dining"},
     type : {None, "expense"},
     start_date : {None, "2024-01-08"},
     end_date : {None, "2024-01-08"}]

\* ------------------------------------------------------ the state machine
\* The state after FinancialMCPServer.__init__: the ledger is loaded from
\* the CSV file, no call is in progress.
Init ==
    /\ \E csv \in CsvFiles : transactions_df = load_transactions(csv)
    /\ data = EmptyData
    /\ call = NoCall
    /\ result = NoResult
    /\ query_memory = <<>>

\* The call with the filtered frame assigned back to the ledger
\* (self.transactions_df = df in place of a local df).
InvokeAssignsLedger(tool_name, args, now) ==
    /\ call = NoCall
    /\ \E reply \in call_tool(transactions_df, tool_name, args, now) :
          /\ result' = reply
          /\ transactions_df' =
                IF tool_name = "get_transactions" /\ reply.success
                THEN reply.data.transactions ELSE transactions_df
    /\ call' = [tool |-> tool_name, args |-> args, now |-> now]
    /\ UNCHANGED <<data, query_memory>>

\* server.call_tool(tool_name, args) with the clock reading `now`: the reply
\* is handed to the caller; neither the ledger nor the store is assigned.
Invoke(tool_name, args, now) ==
    /\ call = NoCall
    /\ \E reply \in call_tool(transactions_df, tool_name, args, now) : result' = reply
    /\ call' = [tool |-> tool_name, args |-> args, now |-> now]
    /\ UNCHANGED <<transactions_df, data, query_memory>>

GetTransactions == \E args \in FilterSpecs : Invoke("get_transactions", args, NoClock)

GetSpendingAnalysis == \E args \in DateSpecs : Invoke("get_spending_analysis", args, NoClock)

GetBudgetAnalysis == \E args \in DateSpecs : Invoke("get_budget_analysis", args, NoClock)

GetSpendingRecommendations ==
    \E args \in DateSpecs, now \in Clock : Invoke("get_spending_recommendations", args, now)

GetMerchantAnalysis == \E args \in DateSpecs : Invoke("get_merchant_analysis", args, NoClock)

GetTrendAnalysis == \E args \in DateSpecs : Invoke("get_trend_analysis", args, NoClock)

GenerateChart == \E args \in ChartSpecs : Invoke("generate_chart", args, NoClock)

UnknownTool == \E args \in {<<>>} : Invoke("get_balance", args, NoClock)

\* The caller has consumed the reply.
Return ==
    /\ call # NoCall
    /\ call' = NoCall
    /\ result' = NoResult
    /\ UNCHANGED <<transactions_df, data, query_memory>>

Next ==
    \/ GetTransactions
    \/ GetSpendingAnalysis
    \/ GetBudgetAnalysis
    \/ GetSpendingRecommendations
    \/ GetMerchantAnalysis
    \/ GetTrendAnalysis
    \/ GenerateChart
    \/ UnknownTool
    \/ Return

Spec == Init /\ [][Next]_vars

\* The two transaction listings side by side: the REST server over any
\* stored file, the engine over the sample ledger of a missing CSV file.
InitApi ==
    /\ transactions_df = load_transactions(NoFile)
    /\ data \in DataFiles
    /\ call = NoCall
    /\ result = NoResult
    /\ query_memory = <<>>

\* GET /transactions of the REST server.
ApiGetTransactions ==
    \E q \in ApiQueries :
        /\ call = NoCall
        /\ result' = api_get_transactions(data, q.category, q.type, q.start_date, q.end_date)
        /\ call' = [tool |-> "GET /transactions", args |-> q, now |-> NoClock]
        /\ UNCHANGED <<transactions_df, data, query_memory>>

NextApi ==
    \/ ApiGetTransactions
    \/ GetTransactions
    \/ Return

SpecApi == InitApi /\ [][NextApi]_vars

\* ------------------------------------------- ledgers for the recommendations
\* CSV files that make the four recommendation rules fire and not fire: up to
\* MaxRepeat purchases of 45.00 at one merchant on one day, then optionally a
\* large expense in a category without budget, an income row, and an expense
\* dated after every clock reading but the last.
RECURSIVE Repeat(_, _)
Repeat(row, k) == IF k = 0 THEN <<>> ELSE <<row>> \o Repeat(row, k - 1)

RidePurchase(date) ==
    [transaction_id |-> "TXN101", date |-> date, amount |-> 90,
     category |-> "Transportation", transaction_type |-> "expense",
     merchant |-> "Uber", account_type |-> "checking"]

LargeExpenses ==
    {<<>>} \cup
    {<<[transaction_id |-> "TXN102", date |-> "2024-02-01", amount |-> a,
        category |-> "Travel", transaction_type |-> "expense",
        merchant |-> "Whole Foods Market", account_type |-> "credit"]>> :
     a \in {6000, 6002}}

IncomeRows ==
    {<<>>} \cup
    {<<[transaction_id |-> "TXN103", date |-> "2024-01-01", amount |-> a,
        category |-> "Income", transaction_type |-> "income",
        merchant |-> "Employer Inc", account_type |-> "checking"]>> :
     a \in {0, 700, 8000}}

LateExpenses ==
    {<<>>,
     <<[transaction_id |-> "TXN104", date |-> "2024-03-01", amount |-> 700,
        category |-> "Food & Dining", transaction_type |-> "expense",
        merchant |-> "Uber Eats", account_type |-> "credit"]>>}

RecFiles ==
    {Repeat(RidePurchase(date), k) \o large \o income \o late :
        date \in {"2024-01-08", "2024-02-01"}, k \in 0..MaxRepeat,
        large \in LargeExpenses, income \in IncomeRows, late \in LateExpenses}

InitRec ==
    /\ \E csv \in RecFiles : transactions_df = load_transactions(csv)
    /\ data = EmptyData
    /\ call = NoCall
    /\ result = NoResult
    /\ query_memory = <<>>

NextRec ==
    \/ GetSpendingRecommendations
    \/ GetBudgetAnalysis
    \/ Return

SpecRec == InitRec /\ [][NextRec]_vars

\* ------------------------------------------- analyses called with a filter
\* The analyses take the same args dict as the listing; here they are called
\* with every filter specification of the listing.
AnalysisTools ==
    {"get_spending_analysis", "get_budget_analysis", "get_merchant_analysis",
     "get_trend_analysis", "get_spending_recommendations"}

\* They are called at midnight of 2024-02-07.
GetAnalysisWithFilter ==
    \E tool_name \in AnalysisTools, args \in FilterSpecs,
       now \in {c \in Clock : c.day = 38 /\ c.midnight} :
        Invoke(tool_name, args, now)

\* A filter specification next to a chart type.
ChartFilterSpecs ==
    {[chart_type |-> chart_type] @@ args : chart_type \in ChartTypes, args \in FilterSpecs}

\* generate_chart called with a filter next to the chart type.
GenerateChartWithFilter ==
    \E args \in ChartFilterSpecs : Invoke("generate_chart", args, NoClock)

InitFilter ==
    /\ \E csv \in SeqsUpTo(CsvRows, 2) \cup {NoFile} :
          transactions_df = load_transactions(csv)
    /\ data = EmptyData
    /\ call = NoCall
    /\ result = NoResult
    /\ query_memory = <<>>

SpecFilter == InitFilter /\ [][GetAnalysisWithFilter \/ GenerateChartWithFilter \/ Return]_vars

\* ---------------------------------------------------------------- ingestion
\* CSV files with records that ought to be refused: a negative amount and a
\* date that is no calendar date.
RefundRow ==
    [transaction_id |-> "TXN201", date |-> "2024-01-08", amount |-> -90,
     category |-> "Shopping", transaction_type |-> "expense",
     merchant |-> "Uber", account_type |-> "credit"]

UndatedRow ==
    [transaction_id |-> "TXN202", date |-> "not-a-date", amount |-> 700,
     category |-> "Groceries", transaction_type |-> "expense",
     merchant |-> "Whole Foods Market", account_type |-> "checking"]

IngestFiles ==
    SeqsUpTo({RefundRow, UndatedRow, RidePurchase("2024-02-01")}, 2) \cup {NoFile}

\* Bodies of POST /transactions: Transaction(id, date, amount, category,
\* type); date, category and type are any strings, amount any number.  The
\* optional id is <<>> when not provided and <<n>> when provided.
PostedTransactions ==
    {[id |-> <<>>, date |-> "2024-01-08", amount |-> 700,
      category |-> "Food & Dining", type |-> "expense"],
     [id |-> <<>>, date |-> "2024-02-01", amount |-> 5000,
      category |-> "Income", type |-> "income"],
     [id |-> <<1>>, date |-> "2024-02-01", amount |-> 700,
      category |-> "Groceries", type |-> "expense"],
     [id |-> <<>>, date |-> "2024-01-08", amount |-> -90,
      category |-> "Shopping", type |-> "expense"],
     [id |-> <<>>, date |-> "not-a-date", amount |-> 90,
      category |-> "Transportation", type |-> "expense"],
     [id |-> <<>>, date |-> "not-a-date", amount |-> 90,
      category |-> "Savings", type |-> "transfer"]}

\* datetime.now().month in update_analytics.
Months == {1, 2}

\* datetime.strptime(s, "%Y-%m-%d"): raises ValueError on a string that is
\* no date (on the strings of the model it accepts what pd.to_datetime does).
strptime_raises(s) == ~DateParses(s)

RECURSIVE SumOfAmounts(_)
SumOfAmounts(ts) == IF ts = <<>> THEN 0 ELSE Head(ts).amount + SumOfAmounts(Tail(ts))

\* category_totals: a dict in insertion order, as (category, total) pairs.
RECURSIVE CategoryTotals(_, _)
CategoryTotals(ts, acc) ==
    IF ts = <<>> THEN acc
    ELSE LET t == Head(ts)
             at == {i \in DOMAIN acc : acc[i][1] = t.category}
         IN CategoryTotals(Tail(ts),
               IF at = {} THEN Append(acc, <<t.category, t.amount>>)
               ELSE [i \in DOMAIN acc |->
                       IF i \in at THEN <<acc[i][1], acc[i][2] + t.amount>> ELSE acc[i]])

\* sorted(items, key=lambda x: x[1], reverse=True): a stable sort, equal
\* amounts keep their order.
RECURSIVE SortedByAmountDesc(_)
SortedByAmountDesc(items) ==
    IF items = <<>> THEN <<>>
    ELSE LET i == CHOOSE k \in DOMAIN items :
                     /\ \A j \in DOMAIN items : items[j][2] <= items[k][2]
                     /\ \A j \in 1..(k - 1) : items[j][2] < items[k][2]
             rest == [j \in 1..(Len(items) - 1) |-> IF j < i THEN items[j] ELSE items[j + 1]]
         IN <<items[i]>> \o SortedByAmountDesc(rest)

\* round(x, 2) of the percentage num / den * 100, in hundredths.
RoundedPercent(num, den) == (2 * num * 10000 + den) \div (2 * den)

\* update_analytics(data) when no strptime call raises.
update_analytics(store, month) ==
    LET transactions == store.transactions
        ofType(t) == SelectSeq(transactions, LAMBDA x : x.type = t)
        inMonth(ts) == SelectSeq(ts, LAMBDA x : MonthOf(Chars[x.date]) = month)
        total_income == SumOfAmounts(ofType("income"))
        total_expenses == SumOfAmounts(ofType("expense"))
        top == SortedByAmountDesc(CategoryTotals(ofType("expense"), <<>>))
        monthly_income == SumOfAmounts(inMonth(ofType("income")))
        monthly_expenses == SumOfAmounts(inMonth(ofType("expense")))
    IN IF transactions = <<>>
       THEN [total_income |-> 0, total_expenses |-> 0, net_savings |-> 0,
             savings_rate |-> 0, top_spending_categories |-> <<>>,
             monthly_trends |-> [income |-> <<>>, expenses |-> <<>>, savings |-> <<>>]]
       ELSE [total_income |-> total_income,
             total_expenses |-> total_expenses,
             net_savings |-> total_income - total_expenses,
             savings_rate |-> IF total_income > 0
                              THEN RoundedPercent(total_income - total_expenses, total_income)
                              ELSE 0,
             top_spending_categories |->
                 LET top5 == IF Len(top) > 5 THEN SubSeq(top, 1, 5) ELSE top
                 IN [i \in DOMAIN top5 |-> [category |-> top5[i][1], amount |-> top5[i][2]]],
             monthly_trends |-> [income |-> <<monthly_income>>,
                                 expenses |-> <<monthly_expenses>>,
                                 savings |-> <<monthly_income - monthly_expenses>>]]

\* The monthly sums of update_analytics call strptime on the date of every
\* income and expense transaction.
update_analytics_raises(transactions) ==
    \E i \in DOMAIN transactions :
        /\ transactions[i].type \in {"income", "expense"}
        /\ strptime_raises(transactions[i].date)

\* update_budgets(data): current_spent and remaining of every budget.
update_budgets(store) ==
    LET spent(c) == SumOfAmounts(SelectSeq(store.transactions,
                        LAMBDA t : t.type = "expense" /\ t.category = c))
    IN [c \in DOMAIN store.budgets |->
          [store.budgets[c] EXCEPT !.current_spent = spent(c),
                                   !.remaining = store.budgets[c].monthly_limit - spent(c)]]

RECURSIVE MaxId(_)
MaxId(ts) ==
    IF ts = <<>> THEN 0
    ELSE IF Head(ts).id > MaxId(Tail(ts)) THEN Head(ts).id ELSE MaxId(Tail(ts))

\* Lines 205-209: the id is generated when not provided; nothing else of the
\* body is looked at.
WithId(store, transaction) ==
    IF transaction.id = <<>>
    THEN [transaction EXCEPT !.id = MaxId(store.transactions) + 1]
    ELSE [transaction EXCEPT !.id = transaction.id[1]]

\* POST /transactions.  An exception of update_analytics leaves the handler
\* before save_data: the client gets status 500 and the file is not written.
add_transaction(store, transaction, month) ==
    LET transaction_dict == WithId(store, transaction)
        appended == [store EXCEPT !.transactions = Append(@, transaction_dict)]
        analysed == [appended EXCEPT !.analytics = update_analytics(appended, month)]
        budgeted == [analysed EXCEPT !.budgets = update_budgets(analysed)]
    IN IF update_analytics_raises(appended.transactions)
       THEN [store |-> store,
             reply |-> [status |-> 500, detail |-> "Internal Server Error"]]
       ELSE [store |-> budgeted,
             reply |-> [status |-> 200,
                        message |-> "Transaction added successfully",
                        transaction |-> transaction_dict]]

ApiAddTransaction ==
    \E transaction \in PostedTransactions, month \in Months :
        /\ call = NoCall
        /\ Len(data.transactions) < MaxPosts
        /\ data' = add_transaction(data, transaction, month).store
        /\ result' = add_transaction(data, transaction, month).reply
        /\ call' = [tool |-> "POST /transactions", args |-> transaction,
                    now |-> [day |-> 0, midnight |-> TRUE, month |-> month]]
        /\ UNCHANGED <<transactions_df, query_memory>>

InitIngest ==
    /\ \E csv \in IngestFiles : transactions_df = load_transactions(csv)
    /\ data = EmptyData
    /\ call = NoCall
    /\ result = NoResult
    /\ query_memory = <<>>

NextIngest ==
    \/ ApiAddTransaction
    \/ ApiGetTransactions
    \/ Return

SpecIngest == InitIngest /\ [][NextIngest]_vars

\* ------------------------------------------------------------ the MCP client
\* FinancialWellnessMCPClient (src/client/mcp_client.py).  The names of
\* self.tools, in the order of the list; list_tools() returns the list.
tools ==
    <<"get_transactions", "add_transaction", "get_budget_status",
      "get_savings_goals", "create_savings_goal", "get_analytics",
      "get_spending_analysis", "get_recommendations", "generate_chart">>

\* The dispatch table of the client with generate_chart left out.
tool_methods_WithoutChart ==
    {"get_transactions", "add_transaction", "get_budget_status",
     "get_savings_goals", "create_savings_goal", "get_analytics",
     "get_spending_analysis", "get_recommendations"}

\* The keys of the dict tool_methods of the client's call_tool.
tool_methods ==
    {"get_transactions", "add_transaction", "get_budget_status",
     "get_savings_goals", "create_savings_goal", "get_analytics",
     "get_spending_analysis", "get_recommendations", "generate_chart"}

\* The names FinancialMCPServer.list_tools() returns, in order.
list_tools ==
    <<"get_transactions", "get_spending_analysis", "get_budget_analysis",
      "get_spending_recommendations", "get_merchant_analysis",
      "get_trend_analysis", "generate_chart">>

\* make_api_request(endpoint, method, data) against the REST server whose
\* file holds `store`: the file afterwards and the value returned, a dict
\* ([kind |-> "dict", json |-> ...]) or a JSON array ([kind |-> "list"]).
\* outcome is what the network does: "served" (the request reaches the server
\* of src/api_server.py), "refused" (no connection: the except Exception
\* branch), "status_error" (an endpoint whose computation is not carried by
\* the model answers 4xx or 5xx) and "json_array" (what answers at api_url
\* sends a JSON array).  A body that lacks a required field of the pydantic
\* model is answered with 422; the description of a transaction is left out
\* of the bodies as it is of the rows.
make_api_request(store, endpoint, body, outcome, month) ==
    LET error(text) == [store |-> store,
                        result |-> [kind |-> "dict", json |-> [error |-> text]]]
        ok(s, json) == [store |-> s, result |-> [kind |-> "dict", json |-> json]]
        param(key) == IF key \in DOMAIN body THEN body[key] ELSE None
    IN CASE outcome = "refused" -> error("Request failed")
         [] outcome = "status_error" -> error("API request failed")
         [] outcome = "json_array" -> [store |-> store, result |-> [kind |-> "list"]]
         [] endpoint = "GET /transactions" ->
               ok(store, api_get_transactions(store, param("category"), param("type"),
                                              param("start_date"), param("end_date")))
         [] endpoint = "POST /transactions" ->
               IF ~({"date", "amount", "category", "type"} \subseteq DOMAIN body)
               THEN error("API request failed")
               ELSE LET transaction ==
                            [id |-> IF "id" \in DOMAIN body THEN <<body.id>> ELSE <<>>,
                             date |-> body.date, amount |-> body.amount,
                             category |-> body.category, type |-> body.type]
                        posted == add_transaction(store, transaction, month)
                    IN IF posted.reply.status = 200
                       THEN ok(posted.store, [message |-> posted.reply.message,
                                              transaction |-> posted.reply.transaction])
                       ELSE error("API request failed")
         [] endpoint = "GET /budget" -> ok(store, [budgets |-> store.budgets])
         [] endpoint = "GET /savings-goals" ->
               ok(store, [savings_goals |-> store.savings_goals])
         [] endpoint = "POST /savings-goals" ->
               IF ~({"name", "target_amount", "current_amount", "deadline", "description"}
                       \subseteq DOMAIN body)
               THEN error("API request failed")
               ELSE LET goal_dict == [id |-> MaxId(store.savings_goals) + 1,
                                      name |-> body.name,
                                      target_amount |-> body.target_amount,
                                      current_amount |-> body.current_amount,
                                      deadline |-> body.deadline,
                                      description |-> body.description,
                                      priority |-> body.priority]
                    IN ok([store EXCEPT !.savings_goals = Append(@, goal_dict)],
                          [message |-> "Savings goal created successfully",
                           goal |-> goal_dict])
         [] endpoint = "GET /analytics" -> ok(store, [analytics |-> store.analytics])
         [] OTHER -> ok(store, [body |-> "<json>"])

\* call_tool(tool_name, args) of the client: the file of the REST server
\* afterwards and the reply.  `"error" not in result` is a membership test on
\* a dict and on a list alike; result.get(...) raises AttributeError on a
\* list, which the try of call_tool turns into a failure reply.
client_call_tool(store, tool_name, args, outcome, month) ==
    LET defaulted(a, key, value) == IF key \in DOMAIN a THEN a ELSE (key :> value) @@ a
        \* the request the tool's method sends
        endpoint ==
            CASE tool_name = "get_transactions" -> "GET /transactions"
              [] tool_name = "add_transaction" -> "POST /transactions"
              [] tool_name = "get_budget_status" -> "GET /budget"
              [] tool_name = "get_savings_goals" -> "GET /savings-goals"
              [] tool_name = "create_savings_goal" -> "POST /savings-goals"
              [] tool_name = "get_analytics" -> "GET /analytics"
              [] tool_name = "get_spending_analysis" -> "GET /spending-analysis"
              [] tool_name = "get_recommendations" -> "GET /recommendations"
              [] tool_name = "generate_chart" -> "GET /charts"
        body ==
            CASE tool_name = "get_transactions" ->
                   [k \in {k \in DOMAIN args : args[k] # None} |-> args[k]]
              [] tool_name = "add_transaction" ->
                   defaulted(defaulted(args, "current_amount", 0), "tags", <<>>)
              [] tool_name = "create_savings_goal" ->
                   defaulted(defaulted(args, "current_amount", 0), "priority", "medium")
              [] tool_name = "get_spending_analysis" ->
                   [days |-> IF "days" \in DOMAIN args THEN args.days ELSE 30]
              [] tool_name = "generate_chart" -> [chart_type |-> args.chart_type]
              [] OTHER -> <<>>
        \* the reply the method builds from the response r
        failed(s, text) == [store |-> s, reply |-> [success |-> FALSE, error |-> text]]
        method(r) ==
            LET has_error == r.result.kind = "dict" /\ "error" \in DOMAIN r.result.json
                reply(message) ==
                    [store |-> r.store,
                     reply |-> [success |-> ~has_error, data |-> r.result,
                                message |-> message]]
                count(key) == IF key \in DOMAIN r.result.json
                              THEN Len(r.result.json[key]) ELSE 0
            IN CASE tool_name = "generate_chart" ->
                      [store |-> r.store,
                       reply |-> [success |-> ~has_error,
                                  data |-> [chart_type |-> args.chart_type,
                                            file_path |-> "client/generated_graphs"],
                                  message |-> "Chart generated successfully"]]
                 [] tool_name \in {"add_transaction", "create_savings_goal"} ->
                      reply(IF has_error THEN r.result.json.error
                            ELSE IF tool_name = "add_transaction"
                                 THEN "Transaction added successfully"
                                 ELSE "Savings goal created successfully")
                 [] tool_name = "get_analytics" -> reply("Retrieved financial analytics")
                 [] tool_name = "get_spending_analysis" ->
                      reply("Retrieved spending analysis")
                 [] r.result.kind = "list" -> failed(r.store, "Tool execution failed")
                 [] tool_name = "get_transactions" ->
                      reply(<<"Retrieved", count("transactions"), "transactions">>)
                 [] tool_name = "get_budget_status" ->
                      reply(<<"Retrieved budget status for",
                              IF "budgets" \in DOMAIN r.result.json
                              THEN Cardinality(DOMAIN r.result.json.budgets) ELSE 0,
                              "categories">>)
                 [] tool_name = "get_savings_goals" ->
                      reply(<<"Retrieved", count("savings_goals"), "savings goals">>)
                 [] tool_name = "get_recommendations" ->
                      reply(<<"Retrieved", count("recommendations"), "recommendations">>)
    IN IF tool_name \notin tool_methods THEN failed(store, "Unknown tool")
       ELSE IF tool_name = "generate_chart"
               /\ ("chart_type" \notin DOMAIN args \/ ~Truthy(args.chart_type))
       THEN failed(store, "chart_type is required")
       ELSE method(make_api_request(store, endpoint, body, outcome, month))

\* The args dicts the tools of the client are called with: complete ones,
\* ones that lack a field the server requires, and for generate_chart the
\* chart specifications of the engine.
ClientToolArgs ==
    [get_transactions |->
         {<<>>, [category |-> "Groceries"], [category |-> None, type |-> "expense"]},
     add_transaction |->
         {[date |-> "2024-02-01", amount |-> 700,
           category |-> "Groceries", type |-> "expense"],
          [date |-> "not-a-date", amount |-> 90,
           category |-> "Transportation", type |-> "expense"],
          [amount |-> 90]},
     create_savings_goal |->
         {[name |-> "Travel", target_amount |-> 1000,
           deadline |-> "2024-03-01", description |-> "Summer"],
          [name |-> "Travel", target_amount |-> 1000,
           deadline |-> "2024-03-01"],
          [name |-> "Travel"]},
     generate_chart |-> ChartSpecs]

\* A call of the client's call_tool, with what the network does.  The names
\* called are those either side advertises and two that neither does.
McpCallTool ==
    \E tool_name \in {tools[i] : i \in DOMAIN tools} \cup {list_tools[i] : i \in DOMAIN list_tools}
                     \cup {"get_balance", ""},
       outcome \in {"served", "refused", "status_error", "json_array"},
       month \in Months :
      \E args \in IF tool_name \in DOMAIN ClientToolArgs
                  THEN ClientToolArgs[tool_name] ELSE {<<>>} :
        /\ call = NoCall
        /\ outcome \in {"status_error", "json_array"} =>
               tool_name \notin {"get_transactions", "add_transaction"}
        /\ tool_name = "add_transaction" => Len(data.transactions) < MaxPosts
        /\ tool_name = "create_savings_goal" => Len(data.savings_goals) < MaxPosts
        /\ LET called == client_call_tool(data, tool_name, args, outcome, month)
           IN data' = called.store /\ result' = called.reply
        /\ call' = [tool |-> "mcp_client." \o tool_name, args |-> args,
                    now |-> [day |-> 0, midnight |-> TRUE, month |-> month]]
        /\ UNCHANGED <<transactions_df, query_memory>>

\* A call of the engine's call_tool with the same names.
ServerCallTool ==
    \E tool_name \in {tools[i] : i \in DOMAIN tools} \cup {list_tools[i] : i \in DOMAIN list_tools}
                     \cup {"get_balance", ""} :
      \E now \in {c \in Clock : c.day = 38 /\ c.midnight} :
        Invoke(tool_name, <<>>, now)

NextMcp ==
    \/ McpCallTool
    \/ ServerCallTool
    \/ Return

SpecMcp == InitApi /\ [][NextMcp]_vars

\* ------------------------------------------------------ the chatbot client
\* EnhancedFinancialClient (src/enhanced_financial_client.py), which owns an
\* engine.  A user query is a sequence of words; the string is the words
\* joined by single spaces.
UserQueries ==
    LET words == {"chart", "Graph", "visualization", "Plotting", "trend", "category",
                  "budget", "merchant", "spending", "this", "last", "past", "month",
                  "week"}
    IN {<<a>> : a \in words}
         \cup {<<a, b>> : a \in words, b \in words}
         \cup {<<a, b, c>> : a \in words, b \in words, c \in {"chart", "month", "week"}}

\* The query as typed: the code points of the words, no case folding.
RECURSIVE query_lower_AsTyped(_)
query_lower_AsTyped(query) ==
    IF query = <<>> THEN <<>>
    ELSE LET word == [i \in DOMAIN Chars[Head(query)] |-> CodePoint[Chars[Head(query)][i]]]
         IN IF Len(query) = 1 THEN word
            ELSE word \o <<32>> \o query_lower_AsTyped(Tail(query))

\* user_query.lower(), as a sequence of code points.
RECURSIVE query_lower(_)
query_lower(query) ==
    IF query = <<>> THEN <<>>
    ELSE LET word == [i \in DOMAIN Chars[Head(query)] |-> Fold(Chars[Head(query)][i])]
         IN IF Len(query) = 1 THEN word ELSE word \o <<32>> \o query_lower(Tail(query))

\* Python's `pattern in text` on strings: pattern occurs in text, literally.
In(pattern, text) ==
    LET pat == Chars[pattern] IN
    \E i \in 0..(Len(text) - Len(pat)) :
        \A j \in 1..Len(pat) : CodePoint[pat[j]] = text[i + j]

\* extract_date_filters(query) at the clock reading `now`; strftime('%Y-%m-%d')
\* gives the date string of a day.
extract_date_filters(text, now) ==
    LET strftime(d) == CHOOSE s \in DOMAIN Chars : DateParses(s) /\ to_datetime(s) = d
        first_of_month == DaysBeforeMonth[to_period_M(now.day)] + 1
        last_month_end == first_of_month - 1
        weekday == (now.day - 1) % 7
    IN IF In("this month", text) \/ In("current month", text)
       THEN [start_date |-> strftime(first_of_month)]
       ELSE IF In("last month", text)
       THEN [start_date |-> strftime(DaysBeforeMonth[to_period_M(last_month_end)] + 1),
             end_date |-> strftime(last_month_end)]
       ELSE IF In("this week", text)
       THEN [start_date |-> strftime(now.day - weekday)]
       ELSE IF In("last week", text)
       THEN [start_date |-> strftime(now.day - (weekday + 7)),
             end_date |-> strftime(now.day - (weekday + 1))]
       ELSE IF In("last 30 days", text) \/ In("past month", text)
       THEN [start_date |-> strftime(now.day - 30)]
       ELSE IF In("last 7 days", text) \/ In("past week", text)
       THEN [start_date |-> strftime(now.day - 7)]
       ELSE <<>>

\* analyze_query(user_query): the chart branch returns at once with one tool
\* and a chart type; otherwise the tools are appended in the order of the
\* query_patterns dict (its 'charts' entry appends nothing).
analyze_query(query, now) ==
    LET routed(query_text, date_filters) ==
          LET any(patterns) == \E pattern \in patterns : In(pattern, query_text)
              chart(chart_type) ==
                  [tools |-> <<"generate_chart">>, date_filters |-> date_filters,
                   query_type |-> "financial_analysis", chart_type |-> chart_type]
              tool(patterns, name) == IF any(patterns) THEN <<name>> ELSE <<>>
          IN
       IF any({"chart", "graph", "visualization", "plot"})
       THEN IF any({"trend", "spending trend", "daily trend", "weekly trend",
                    "monthly trend"})
            THEN chart("spending_trend")
            ELSE IF any({"category", "breakdown", "pie"})
            THEN chart("category_breakdown")
            ELSE IF any({"budget", "actual", "comparison"})
            THEN chart("budget_vs_actual")
            ELSE IF any({"merchant", "store", "top merchants"})
            THEN chart("merchant_analysis")
            ELSE chart("category_breakdown")
       ELSE [tools |->
                tool({"transaction", "purchase", "expense", "income", "spending"},
                     "get_transactions")
                \o tool({"spending analysis", "spending breakdown",
                         "category breakdown", "how much spent"},
                        "get_spending_analysis")
                \o tool({"budget", "budget analysis", "over budget", "under budget",
                         "budget status"},
                        "get_budget_analysis")
                \o tool({"recommendation", "advice", "suggestion", "improve",
                         "save money"},
                        "get_spending_recommendations")
                \o tool({"merchant", "store", "where spent", "top merchants"},
                        "get_merchant_analysis")
                \o tool({"trend", "over time", "monthly", "weekly", "daily trend"},
                        "get_trend_analysis"),
             date_filters |-> date_filters,
             query_type |-> "financial_analysis"]
        dated(query_text) == routed(query_text, extract_date_filters(query_text, now))
    IN dated(query_lower(query))

\* The loop of process_query over analysis['tools']: the dicts tool_results it
\* can build, as sequences in insertion order.  Every tool is called with the
\* date filters; generate_chart also with the chart type of the analysis.
call_mcp_tools(transactions, analysis, now) ==
    LET args(tool_name) ==
            IF tool_name = "generate_chart" /\ "chart_type" \in DOMAIN analysis
            THEN [chart_type |-> analysis.chart_type] @@ analysis.date_filters
            ELSE analysis.date_filters
        RECURSIVE Results(_)
        Results(names) ==
            IF names = <<>> THEN {<<>>}
            ELSE {<<[tool |-> Head(names), result |-> r]>> \o rest :
                    r \in call_tool(transactions, Head(names), args(Head(names)), now),
                    rest \in Results(Tail(names))}
    IN Results(analysis.tools)

\* process_query(user_query) on the client's engine: what it can return.
\* tool_results (the handler's local dict, in insertion order) is kept beside
\* the response.  The response is the sequence of the parts that
\* format_financial_response joins; _format_chart_response is carried as its
\* sentence with the chart type and path it interpolates, and the text the
\* formatters of the six analyses make of a reply's data is not modelled: the
\* part carries the data.  conversation_history is appended to and never
\* read by process_query; it is left out.
process_query(transactions, query, now) ==
    LET part(tr) ==
            IF tr.tool = "generate_chart"
            THEN [says |-> "I've generated a chart for you! The chart has been saved to:",
                  chart_type |-> tr.result.data.chart_type,
                  chart_path |-> tr.result.data.chart_path]
            ELSE [says |-> "<formatted>", tool |-> tr.tool, data |-> tr.result.data]
        nothing == <<[says |-> "I couldn't find any relevant financial data to answer your question."]>>
        format_financial_response(results) ==
            LET succeeded == SelectSeq(results, LAMBDA tr : tr.result.success)
            IN IF succeeded = <<>> THEN nothing
               ELSE [i \in DOMAIN succeeded |-> part(succeeded[i])]
    IN {[response |-> format_financial_response(results), tool_results |-> results] :
          results \in call_mcp_tools(transactions, analyze_query(query, now), now)}

\* One query put to the chatbot on 2024-02-07, a Wednesday.
ProcessQuery ==
    \E query \in UserQueries, now \in {c \in Clock : c.day = 38 /\ ~c.midnight} :
        /\ call = NoCall
        /\ \E r \in process_query(transactions_df, query, now) : result' = r
        /\ call' = [tool |-> "process_query", args |-> [user_query |-> query], now |-> now]
        /\ UNCHANGED <<transactions_df, data, query_memory>>

SpecChat == InitIngest /\ [][ProcessQuery \/ Return]_vars

\* --------------------------------------------------- trends and charts
\* Ledgers for the trend analysis and the charts: expenses of January,
\* February and March, an income, and an expense whose date cell is empty.
InitTrend ==
    /\ \E csv \in SeqsUpTo({r \in CsvRows : r.transaction_id \in
                               {"TXN002", "TXN003", "TXN004", "TXN005", "TXN007", "TXN008"}}
                           \cup {[transaction_id |-> "TXN009", date |-> NA, amount |-> 40,
                                  category |-> "Groceries", transaction_type |-> "expense",
                                  merchant |-> "Uber", account_type |-> "credit"]},
                           MaxLedger) :
          transactions_df = load_transactions(csv)
    /\ data = EmptyData
    /\ call = NoCall
    /\ result = NoResult
    /\ query_memory = <<>>

NextTrend ==
    \/ GetTrendAnalysis
    \/ GenerateChart
    \/ Return

SpecTrend == InitTrend /\ [][NextTrend]_vars

\* ------------------------------------------------------------ POST /budget
\* create_budget(budget): the entry of the category is set to the three
\* numbers of the request body and the file is saved; neither update_budgets
\* nor update_analytics is called.  The amounts of a budget are in the unit
\* of the transactions' amounts.
create_budget(store, budget) ==
    [store |-> [store EXCEPT !.budgets =
                   (budget.category :> [monthly_limit |-> budget.monthly_limit,
                                        current_spent |-> budget.current_spent,
                                        remaining |-> budget.remaining])
                   @@ [c \in DOMAIN @ \ {budget.category} |-> @[c]]],
     reply |-> [status |-> 200, message |-> "Budget created successfully",
                budget |-> budget]]

\* Bodies of POST /budget: the numbers of a body need not agree with each
\* other or with the stored transactions.
PostedBudgets ==
    [category : {"Groceries", "Food & Dining"},
     monthly_limit : {800},
     current_spent : {0, 700},
     remaining : {800, 100}]

ApiCreateBudget ==
    \E budget \in PostedBudgets :
        /\ call = NoCall
        /\ data' = create_budget(data, budget).store
        /\ result' = create_budget(data, budget).reply
        /\ call' = [tool |-> "POST /budget", args |-> budget, now |-> NoClock]
        /\ UNCHANGED <<transactions_df, query_memory>>

\* The REST server started without a data file, the engine without a CSV.
InitRest ==
    /\ transactions_df = load_transactions(NoFile)
    /\ data = EmptyData
    /\ call = NoCall
    /\ result = NoResult
    /\ query_memory = <<>>

SpecBudget == InitRest /\ [][ApiAddTransaction \/ ApiCreateBudget \/ Return]_vars

\* ----------------------------------------------------- the chatbot's memory
\* FinancialWellnessClient (src/client/universal_client.py): query_memory
\* starts empty and max_memory is 10.
max_memory == 10

\* Most calls of add_to_memory explored; the timestamp of an entry is the
\* tick of the clock at the call, one tick later than the entry before it.
MaxAdds == 12

\* add_to_memory with pop() in place of pop(0): the newest entry is dropped.
add_to_memory_PopsNewest(memory, query, response, timestamp) ==
    LET appended == Append(memory, [query |-> query, response |-> response,
                                    timestamp |-> timestamp])
    IN IF Len(appended) > max_memory THEN SubSeq(appended, 1, max_memory) ELSE appended

\* add_to_memory(query, response): append the entry, then pop(0) when the
\* list is longer than max_memory.
add_to_memory(memory, query, response, timestamp) ==
    LET appended == Append(memory, [query |-> query, response |-> response,
                                    timestamp |-> timestamp])
    IN IF Len(appended) > max_memory THEN Tail(appended) ELSE appended

AddToMemory ==
    \E query \in {<<"spending">>, <<"budget", "chart">>}, response \in {"<response>"} :
        LET timestamp == IF query_memory = <<>> THEN 1
                         ELSE query_memory[Len(query_memory)].timestamp + 1
        IN /\ call = NoCall
           /\ timestamp <= MaxAdds
           /\ query_memory' = add_to_memory(query_memory, query, response, timestamp)
           /\ call' = [tool |-> "add_to_memory",
                       args |-> [query |-> query, response |-> response,
                                 timestamp |-> timestamp],
                       now |-> NoClock]
           /\ result' = [returned |-> None]
           /\ UNCHANGED <<transactions_df, data>>

SpecMemory == InitRest /\ [][AddToMemory \/ Return]_vars

\* ================================================================= claims
\* What the claims are stated with, written from the claims' words and not
\* from the operations above.
Replied(tool) == call.tool = tool /\ "success" \in DOMAIN result /\ result.success

\* The keys of a filter specification that carry a predicate.
Carries(args, key) == key \in DOMAIN args /\ args[key] \notin {None, ""}

DatesWellFormed(args) ==
    \A key \in {"start_date", "end_date"} : Carries(args, key) => DateParses(args[key])

\* The sum of the amounts of the rows that satisfy P.
RECURSIVE TotalOver(_, _)
TotalOver(rows, idx) ==
    IF idx = {} THEN 0
    ELSE LET i == CHOOSE x \in idx : TRUE IN rows[i].amount + TotalOver(rows, idx \ {i})

InDateRange(r, args) ==
    /\ Carries(args, "start_date") => r.date >= to_datetime(args["start_date"])
    /\ Carries(args, "end_date") => r.date <= to_datetime(args["end_date"])

\* C1: for every ledger and date filter, the total_amount values of the
\* category_breakdown of get_spending_analysis sum to the total_expenses of
\* the summary of the same call, an expense without category included.
RECURSIVE SumTotalAmount(_)
SumTotalAmount(groups) ==
    IF groups = <<>> THEN 0 ELSE Head(groups).total_amount + SumTotalAmount(Tail(groups))

C1_BreakdownSumsToTotalExpenses ==
    Replied("get_spending_analysis") =>
        SumTotalAmount(result.data.category_breakdown) = result.data.summary.total_expenses

\* C2: get_transactions returns exactly the ledger transactions, in ledger
\* order, that satisfy all supplied predicates together (date bounds
\* inclusive), and the whole ledger when no predicate is supplied; it
\* replies successfully whenever the supplied date bounds are dates.
SatisfiesAll(r, args) ==
    /\ Carries(args, "category") => str_contains(r.category, args["category"])
    /\ Carries(args, "type") => r.transaction_type = args["type"]
    /\ Carries(args, "merchant") => str_contains(r.merchant, args["merchant"])
    /\ InDateRange(r, args)

NoPredicate(args) ==
    \A key \in {"category", "type", "merchant", "start_date", "end_date"} : ~Carries(args, key)

C2_FilterIsConjunction ==
    call.tool = "get_transactions" =>
        /\ DatesWellFormed(call.args) => Replied("get_transactions")
        /\ Replied("get_transactions") =>
              /\ result.data.transactions =
                    SelectSeq(transactions_df, LAMBDA r : SatisfiesAll(r, call.args))
              /\ NoPredicate(call.args) => result.data.transactions = transactions_df

\* C2 for the ledgers whose filtered text columns hold at least one string
\* (or no row): there the listing is the conjunction of the predicates.
TextColumnsHoldStrings(args) ==
    /\ Carries(args, "category") =>
          (transactions_df = <<>> \/ \E i \in DOMAIN transactions_df :
                                      transactions_df[i].category # NA)
    /\ Carries(args, "merchant") =>
          (transactions_df = <<>> \/ \E i \in DOMAIN transactions_df :
                                      transactions_df[i].merchant # NA)

C2_ConjunctionOverStringColumns ==
    call.tool = "get_transactions" =>
        /\ (DatesWellFormed(call.args) /\ TextColumnsHoldStrings(call.args))
              => Replied("get_transactions")
        /\ Replied("get_transactions") =>
              /\ result.data.transactions =
                    SelectSeq(transactions_df, LAMBDA r : SatisfiesAll(r, call.args))
              /\ NoPredicate(call.args) => result.data.transactions = transactions_df

\* A listing with a category and both date bounds supplied that keeps a row
\* dated on the bounds and drops another row.
C2_Witness ==
    /\ Replied("get_transactions")
    /\ Carries(call.args, "category")
    /\ Carries(call.args, "start_date") /\ Carries(call.args, "end_date")
    /\ Len(result.data.transactions) > 0
    /\ Len(result.data.transactions) < Len(transactions_df)
    /\ \E i \in DOMAIN result.data.transactions :
          result.data.transactions[i].date = to_datetime(call.args["end_date"])

\* C3: in the engine's get_transactions and in GET /transactions, a category
\* or merchant filter f matches a transaction exactly when f, compared
\* case-insensitively, is a substring of its category (merchant).
IsSubstringIgnoringCase(f, cell) ==
    /\ cell # NA
    /\ \E i \in 0..(Len(Chars[cell]) - Len(Chars[f])) :
          \A j \in 1..Len(Chars[f]) : Fold(Chars[f][j]) = Fold(Chars[cell][i + j])

MatchesBySubstring(r, args) ==
    /\ Carries(args, "category") => IsSubstringIgnoringCase(args["category"], r.category)
    /\ Carries(args, "type") => r.transaction_type = args["type"]
    /\ Carries(args, "merchant") => IsSubstringIgnoringCase(args["merchant"], r.merchant)
    /\ InDateRange(r, args)

StoredMatchesBySubstring(t, q) ==
    /\ Carries(q, "category") => IsSubstringIgnoringCase(q.category, t.category)
    /\ Carries(q, "type") => t.type = q.type
    /\ Carries(q, "start_date") => to_datetime(t.date) >= to_datetime(q.start_date)
    /\ Carries(q, "end_date") => to_datetime(t.date) <= to_datetime(q.end_date)

C3_StringFiltersMatchBySubstring ==
    /\ Replied("get_transactions") =>
          result.data.transactions =
             SelectSeq(transactions_df, LAMBDA r : MatchesBySubstring(r, call.args))
    /\ call.tool = "GET /transactions" =>
          result.transactions =
             SelectSeq(data.transactions, LAMBDA t : StoredMatchesBySubstring(t, call.args))

\* The engine's half of C3 alone, and the REST server's half alone.
C3_EngineMatchesBySubstring ==
    Replied("get_transactions") =>
        result.data.transactions =
           SelectSeq(transactions_df, LAMBDA r : MatchesBySubstring(r, call.args))

C3_ApiMatchesBySubstring ==
    call.tool = "GET /transactions" =>
        result.transactions =
           SelectSeq(data.transactions, LAMBDA t : StoredMatchesBySubstring(t, call.args))

\* C4: the budget_analysis of get_budget_analysis holds exactly one entry
\* for each category of the budget table and none for any other category;
\* a category without matching transactions has status no_spending.
BudgetedCategories == {category_budgets[i][1] : i \in DOMAIN category_budgets}

HasMatchingExpense(category, args) ==
    \E i \in DOMAIN transactions_df :
        /\ transactions_df[i].transaction_type = "expense"
        /\ transactions_df[i].category = category
        /\ InDateRange(transactions_df[i], args)

C4_OneEntryPerBudgetedCategory ==
    call.tool = "get_budget_analysis" =>
        /\ DatesWellFormed(call.args) => Replied("get_budget_analysis")
        /\ Replied("get_budget_analysis") =>
              LET entries == result.data.budget_analysis IN
              /\ \A c \in BudgetedCategories :
                    Cardinality({i \in DOMAIN entries : entries[i].category = c}) = 1
              /\ \A i \in DOMAIN entries : entries[i].category \in BudgetedCategories
              /\ \A i \in DOMAIN entries :
                    ~HasMatchingExpense(entries[i].category, call.args)
                       => entries[i].status = "no_spending"

\* A budget analysis with a date filter in which one budgeted category has
\* spending and another has none.
C4_Witness ==
    /\ Replied("get_budget_analysis")
    /\ Carries(call.args, "start_date")
    /\ \E i, j \in DOMAIN result.data.budget_analysis :
          /\ result.data.budget_analysis[i].status = "no_spending"
          /\ result.data.budget_analysis[j].status # "no_spending"
          /\ result.data.budget_analysis[j].spent > 0

\* C5: the status of every budgeted category is the first matching rule of:
\* spent == 0 -> no_spending; spent > budget -> over_budget;
\* spent < 0.8 * budget -> under_budget; otherwise on_track.
FirstMatchingRule(spent, budget) ==
    IF spent = 0 THEN "no_spending"
    ELSE IF spent > ToMinor(budget) THEN "over_budget"
    ELSE IF 10 * spent < 8 * ToMinor(budget) THEN "under_budget"
    ELSE "on_track"

C5_StatusIsFirstMatchingRule ==
    Replied("get_budget_analysis") =>
        \A i \in DOMAIN result.data.budget_analysis :
            LET e == result.data.budget_analysis[i] IN
            e.status = FirstMatchingRule(e.spent, e.budget)

\* The part of C5 that the code does satisfy: a category with positive
\* spending gets the status of rules 2 to 4.
C5_StatusOfPositiveSpending ==
    Replied("get_budget_analysis") =>
        \A i \in DOMAIN result.data.budget_analysis :
            LET e == result.data.budget_analysis[i] IN
            e.spent > 0 => e.status = FirstMatchingRule(e.spent, e.budget)

\* C6: when the ledger and the filter leave zero matching transactions,
\* every engine operation replies success = true with an empty result set
\* and every numeric aggregate equal to 0.
IsZero(q) == q.den # 0 /\ q.num = 0

\* The rows the call's filter leaves: all predicates for get_transactions,
\* the analysis window for the recommendations, the date range otherwise.
MatchingRows(tool, args, now) ==
    IF tool = "get_transactions"
    THEN SelectSeq(transactions_df, LAMBDA r : SatisfiesAll(r, args))
    ELSE IF tool = "get_spending_recommendations" /\ ~Carries(args, "start_date")
    THEN SelectSeq(transactions_df, LAMBDA r :
            IF now.midnight THEN r.date >= now.day - 30 ELSE r.date > now.day - 30)
    ELSE SelectSeq(transactions_df, LAMBDA r : InDateRange(r, args))

EmptyAndZero(tool, d) ==
    CASE tool = "get_transactions" ->
            d.transactions = <<>> /\ d.total_count = 0 /\ d.total_amount = 0
      [] tool = "get_spending_analysis" ->
            /\ d.summary.total_expenses = 0 /\ d.summary.total_income = 0
            /\ d.summary.net_income = 0
            /\ d.summary.expense_count = 0 /\ d.summary.income_count = 0
            /\ d.category_breakdown = <<>> /\ d.monthly_trend = <<>>
            /\ d.top_merchants = <<>> /\ d.account_breakdown = <<>>
      [] tool = "get_budget_analysis" ->
            /\ d.total_spent = 0
            /\ \A i \in DOMAIN d.budget_analysis :
                  d.budget_analysis[i].spent = 0 /\ IsZero(d.budget_analysis[i].percentage_used)
      [] tool = "get_merchant_analysis" ->
            d.merchant_analysis = <<>> /\ d.total_merchants = 0 /\ d.total_spent = 0
      [] tool = "get_trend_analysis" ->
            /\ d.daily_trend = <<>> /\ d.weekly_trend = <<>> /\ d.monthly_trend = <<>>
            /\ IsZero(d.trend_metrics.avg_daily_spending)
            /\ IsZero(d.trend_metrics.avg_weekly_spending)
            /\ IsZero(d.trend_metrics.avg_monthly_spending)
            /\ IsZero(d.trend_metrics.avg_monthly_growth)
            /\ IsZero(d.trend_metrics.spending_volatility_squared)
      [] tool = "get_spending_recommendations" ->
            d.recommendations = <<>> /\ d.total_recommendations = 0 /\ d.analysis_period = 0

QueryTools ==
    {"get_transactions", "get_spending_analysis", "get_budget_analysis",
     "get_merchant_analysis", "get_trend_analysis", "get_spending_recommendations"}

C6_EmptyResultIsZeroValued ==
    (/\ call.tool \in QueryTools
     /\ DatesWellFormed(call.args)
     /\ MatchingRows(call.tool, call.args, call.now) = <<>>)
    => /\ Replied(call.tool)
       /\ EmptyAndZero(call.tool, result.data)

\* C6 for the listing and the spending, budget and merchant analyses alone:
\* these four do reply with empty, zero-valued results, the listing when its
\* filtered text columns hold a string.
C6_ListingAndThreeAnalyses ==
    (/\ call.tool \in QueryTools \ {"get_trend_analysis", "get_spending_recommendations"}
     /\ DatesWellFormed(call.args)
     /\ call.tool = "get_transactions" => TextColumnsHoldStrings(call.args)
     /\ MatchingRows(call.tool, call.args, call.now) = <<>>)
    => /\ Replied(call.tool)
       /\ EmptyAndZero(call.tool, result.data)

\* C7: whatever the tool name and the arguments, call_tool returns a mapping
\* with a boolean success field, and with an error message when success is
\* false; nothing is raised to the caller.
C7_CallToolNeverRaises ==
    call # NoCall =>
        /\ "success" \in DOMAIN result
        /\ result.success \in BOOLEAN
        /\ ~result.success => "error" \in DOMAIN result

\* An analysis called with a malformed date string has replied with a
\* failure.
C7_Witness ==
    /\ call.tool = "get_trend_analysis"
    /\ "start_date" \in DOMAIN call.args
    /\ ~DateParses(call.args["start_date"])
    /\ "success" \in DOMAIN result
    /\ ~result.success

\* C8: no quotient of the analytics is NaN or Infinity, whatever the
\* denominator: percentage_used, the savings rate, the month-over-month
\* growth, the trend averages and the volatility.
QuotientsOf(tool, d) ==
    CASE tool = "get_budget_analysis" ->
            {d.budget_analysis[i].percentage_used : i \in DOMAIN d.budget_analysis}
      [] tool = "get_merchant_analysis" ->
            {d.merchant_analysis[i].avg_amount : i \in DOMAIN d.merchant_analysis}
      [] tool = "get_trend_analysis" ->
            {d.trend_metrics.avg_daily_spending, d.trend_metrics.avg_weekly_spending,
             d.trend_metrics.avg_monthly_spending, d.trend_metrics.avg_monthly_growth,
             d.trend_metrics.spending_volatility_squared}
      [] tool = "get_spending_recommendations" ->
            {d.recommendations[i].savings_rate :
                i \in {j \in DOMAIN d.recommendations :
                          d.recommendations[j].type = "low_savings_rate"}}
      [] OTHER -> {}

C8_NoQuotientIsNaNOrInfinity ==
    (call.tool \in QueryTools /\ Replied(call.tool)) =>
        \A q \in QuotientsOf(call.tool, result.data) : IsFinite(q)

\* The guarded quotients of C8 alone (percentage_used, the savings rate, the
\* merchant averages) are finite.
C8_GuardedQuotientsAreFinite ==
    (call.tool \in QueryTools \ {"get_trend_analysis"} /\ Replied(call.tool)) =>
        \A q \in QuotientsOf(call.tool, result.data) : IsFinite(q)

\* C9: the category breakdown of get_spending_analysis and the merchant list
\* of get_merchant_analysis are ordered by total descending, equal totals by
\* name ascending.
OrderedByTotalThenName(seq, total(_), name(_)) ==
    \A i \in 1..(Len(seq) - 1) :
        \/ total(seq[i]) > total(seq[i + 1])
        \/ total(seq[i]) = total(seq[i + 1]) /\ StrLess(name(seq[i]), name(seq[i + 1]))

C9_OrderedByTotalThenName ==
    /\ Replied("get_spending_analysis") =>
          OrderedByTotalThenName(result.data.category_breakdown,
                                 LAMBDA g : g.total_amount, LAMBDA g : g.category)
    /\ Replied("get_merchant_analysis") =>
          OrderedByTotalThenName(result.data.merchant_analysis,
                                 LAMBDA m : m.total_spent, LAMBDA m : m.merchant)

\* The part of C9 that holds whatever the sort does with ties: the totals
\* never increase along either list.
C9_TotalsDescending ==
    /\ Replied("get_spending_analysis") =>
          \A i \in 1..(Len(result.data.category_breakdown) - 1) :
              result.data.category_breakdown[i].total_amount
                 >= result.data.category_breakdown[i + 1].total_amount
    /\ Replied("get_merchant_analysis") =>
          \A i \in 1..(Len(result.data.merchant_analysis) - 1) :
              result.data.merchant_analysis[i].total_spent
                 >= result.data.merchant_analysis[i + 1].total_spent

\* C10: the summary of get_spending_analysis has total_expenses and
\* total_income equal to the sums of the amounts of the filtered expense and
\* income transactions, net_income = total_income - total_expenses, and the
\* two counts equal to the sizes of the two partitions.
FilteredOfType(args, t) ==
    {i \in DOMAIN transactions_df :
        InDateRange(transactions_df[i], args) /\ transactions_df[i].transaction_type = t}

C10_SummaryIsPartitionSums ==
    call.tool = "get_spending_analysis" =>
        /\ DatesWellFormed(call.args) => Replied("get_spending_analysis")
        /\ Replied("get_spending_analysis") =>
              LET s == result.data.summary
                  expenses == FilteredOfType(call.args, "expense")
                  incomes == FilteredOfType(call.args, "income")
              IN /\ s.total_expenses = TotalOver(transactions_df, expenses)
                 /\ s.total_income = TotalOver(transactions_df, incomes)
                 /\ s.net_income = s.total_income - s.total_expenses
                 /\ s.expense_count = Cardinality(expenses)
                 /\ s.income_count = Cardinality(incomes)

\* A spending analysis over a date range that leaves out a row and keeps
\* both an expense and an income.
C10_Witness ==
    /\ Replied("get_spending_analysis")
    /\ Carries(call.args, "end_date")
    /\ result.data.summary.expense_count > 0
    /\ result.data.summary.income_count > 0
    /\ result.data.summary.total_expenses > 0
    /\ result.data.summary.expense_count + result.data.summary.income_count
          < Len(transactions_df)

\* C11: filtering is idempotent: get_transactions with the same filter
\* specification on the ledger made of a successful listing's transactions
\* returns that same listing (transactions, order, total_count, total_amount).
C11_FilteringIsIdempotent ==
    Replied("get_transactions") =>
        get_transactions(result.data.transactions, call.args) = {result}

\* A listing whose filter kept some rows of the ledger and dropped others.
C11_Witness ==
    /\ Replied("get_transactions")
    /\ ~NoPredicate(call.args)
    /\ Len(result.data.transactions) > 0
    /\ Len(result.data.transactions) < Len(transactions_df)
    /\ get_transactions(result.data.transactions, call.args) = {result}

\* ------------------------------------------------ the recommendation rules
\* The expenses that get_spending_recommendations analyses: those dated on or
\* after the supplied start_date, or within the 30 days before the clock
\* reading when none is supplied.
AnalysedExpenses(args, now) ==
    {i \in DOMAIN transactions_df :
        /\ transactions_df[i].transaction_type = "expense"
        /\ IF Carries(args, "start_date")
           THEN transactions_df[i].date >= to_datetime(args["start_date"])
           ELSE IF now.midnight THEN transactions_df[i].date >= now.day - 30
                ELSE transactions_df[i].date > now.day - 30}

OfCategory(idx, c) == {i \in idx : transactions_df[i].category = c}
OfMerchant(idx, m) == {i \in idx : transactions_df[i].merchant = m}

\* The categories of the budget table spent over their budget by the rows idx.
OverBudget(idx) ==
    {c \in BudgetedCategories :
        TotalOver(transactions_df, OfCategory(idx, c)) > 2 * BudgetOf(c)}

\* The merchants with more than 5 of the rows idx.
Frequent(idx) ==
    {m \in {transactions_df[i].merchant : i \in idx} \ {NA} :
        Cardinality(OfMerchant(idx, m)) > 5}

\* The entries of one kind in a list of recommendations.
OfKind(recs, kind) == SelectSeq(recs, LAMBDA r : r.type = kind)

Rank(kind) ==
    CASE kind = "overspending_alert" -> 1
      [] kind = "frequent_purchases" -> 2
      [] kind = "high_daily_spending" -> 3
      [] kind = "low_savings_rate" -> 4

\* The income rows and the two totals the savings rule of the code reads.
IncomeIdx == {i \in DOMAIN transactions_df : transactions_df[i].transaction_type = "income"}
ExpenseIdx == {i \in DOMAIN transactions_df : transactions_df[i].transaction_type = "expense"}

\* C12: the recommendations are emitted in the order overspending alerts,
\* frequent purchases, high daily spending, low savings rate, and each rule
\* emits its entries whether or not the other rules have fired.
C12_RulesEmittedInFixedOrder ==
    Replied("get_spending_recommendations") =>
        LET recs == result.data.recommendations
            idx == AnalysedExpenses(call.args, call.now)
            income == TotalOver(transactions_df, IncomeIdx)
            expenses == TotalOver(transactions_df, ExpenseIdx)
        IN /\ \A i, j \in DOMAIN recs : i < j => Rank(recs[i].type) <= Rank(recs[j].type)
           /\ Len(OfKind(recs, "overspending_alert")) = Cardinality(OverBudget(idx))
           /\ Len(OfKind(recs, "frequent_purchases")) = Cardinality(Frequent(idx))
           /\ Len(OfKind(recs, "high_daily_spending")) =
                 (IF TotalOver(transactions_df, idx) > 2 * 100 * 30 THEN 1 ELSE 0)
           /\ Len(OfKind(recs, "low_savings_rate")) =
                 (IF IncomeIdx # {} /\ (income = 0 \/ (income - expenses) * 100 < 20 * income)
                  THEN 1 ELSE 0)

\* A reply in which all four rules have fired.
C12_Witness ==
    /\ Replied("get_spending_recommendations")
    /\ \A kind \in {"overspending_alert", "frequent_purchases",
                    "high_daily_spending", "low_savings_rate"} :
          OfKind(result.data.recommendations, kind) # <<>>

\* C13: get_spending_recommendations emits exactly one overspending_alert for
\* each category whose analysed expenses total strictly more than its budget
\* and none otherwise; a category absent from the budget table gets no
\* overspending alert and no over_budget status, whatever its spending.
AlertedCategories(recs) ==
    LET alerts == OfKind(recs, "overspending_alert")
    IN {alerts[i].category : i \in DOMAIN alerts}

C14_FivePurchasesNoEntry ==
    /\ Replied("get_spending_recommendations")
    /\ Cardinality(OfMerchant(AnalysedExpenses(call.args, call.now), "Uber")) = 5
    /\ OfKind(result.data.recommendations, "frequent_purchases") = <<>>

\* The analysis window as the specification words it: from the supplied
\* start_date, or from 30 days before the reference instant, to the supplied
\* end_date, or to the reference date.  A row is dated at midnight, so the
\* first day within 30 days of an instant later in the day is day - 29.
WindowFirst(args, now) ==
    IF Carries(args, "start_date") THEN to_datetime(args["start_date"])
    ELSE IF now.midnight THEN now.day - 30 ELSE now.day - 29
WindowLast(args, now) ==
    IF Carries(args, "end_date") THEN to_datetime(args["end_date"]) ELSE now.day
WindowDays(args, now) ==
    IF Carries(args, "start_date")
    THEN WindowLast(args, now) - WindowFirst(args, now) + 1
    ELSE 30
WindowExpenses(args, now) ==
    {i \in ExpenseIdx :
        /\ transactions_df[i].date >= WindowFirst(args, now)
        /\ transactions_df[i].date <= WindowLast(args, now)}

\* C15: high_daily_spending is emitted exactly when the expense total of the
\* analysis window divided by the number of days of the window is strictly
\* greater than 100, whatever the length of the window.
C15_AverageOverWindowLength ==
    (Replied("get_spending_recommendations") /\ DatesWellFormed(call.args)) =>
        LET days == WindowDays(call.args, call.now)
            total == TotalOver(transactions_df, WindowExpenses(call.args, call.now))
        IN (OfKind(result.data.recommendations, "high_daily_spending") # <<>>)
              <=> (days > 0 /\ total > 2 * 100 * days)

\* What the code does: the total of the analysed expenses is divided by 30
\* whatever the window.
C15_AverageOverThirtyDays ==
    Replied("get_spending_recommendations") =>
        LET total == TotalOver(transactions_df, AnalysedExpenses(call.args, call.now))
        IN /\ Len(OfKind(result.data.recommendations, "high_daily_spending")) <= 1
           /\ (OfKind(result.data.recommendations, "high_daily_spending") # <<>>)
                 <=> total > 2 * 100 * 30

\* C16: low_savings_rate is emitted exactly when the savings rate
\* (total_income - total_expenses) / total_income is below 20%, the rate
\* being 0 when total_income is 0 (no income row, or only zero-amount income
\* rows); the operation does not raise in that case.
C16_LowSavingsRateBelowTwenty ==
    call.tool = "get_spending_recommendations" =>
        /\ DatesWellFormed(call.args) => Replied("get_spending_recommendations")
        /\ Replied("get_spending_recommendations") =>
              LET income == TotalOver(transactions_df, IncomeIdx)
                  expenses == TotalOver(transactions_df, ExpenseIdx)
                  entries == OfKind(result.data.recommendations, "low_savings_rate")
              IN /\ (entries # <<>>) <=>
                       (income = 0 \/ (income - expenses) * 100 < 20 * income)
                 /\ \A i \in DOMAIN entries :
                       income = 0 => IsZero(entries[i].savings_rate)

\* What the code does: the rule is evaluated only when the ledger holds an
\* income row; it never raises, and a total income of 0 gives the rate 0.
C16_LowSavingsRateGivenIncomeRows ==
    call.tool = "get_spending_recommendations" =>
        /\ DatesWellFormed(call.args) => Replied("get_spending_recommendations")
        /\ Replied("get_spending_recommendations") =>
              LET income == TotalOver(transactions_df, IncomeIdx)
                  expenses == TotalOver(transactions_df, ExpenseIdx)
                  entries == OfKind(result.data.recommendations, "low_savings_rate")
              IN /\ (entries # <<>>) <=>
                       (/\ IncomeIdx # {}
                        /\ (income = 0 \/ (income - expenses) * 100 < 20 * income))
                 /\ \A i \in DOMAIN entries :
                       income = 0 => IsZero(entries[i].savings_rate)

\* C17: the analysis window of get_spending_recommendations is the supplied
\* date range (start_date and end_date both honoured), or the 30 days ending
\* at the reference date; a transaction dated outside it contributes to no
\* recommendation.
SpentInAlerts(recs) ==
    LET alerts == OfKind(recs, "overspending_alert")
    IN {<<alerts[i].category, alerts[i].spent>> : i \in DOMAIN alerts}

C17_OnlyWindowContributes ==
    (Replied("get_spending_recommendations") /\ DatesWellFormed(call.args)) =>
        LET recs == result.data.recommendations
            idx == WindowExpenses(call.args, call.now)
        IN /\ result.data.analysis_period = Cardinality(idx)
           /\ SpentInAlerts(recs) =
                 {<<c, TotalOver(transactions_df, OfCategory(idx, c))>> : c \in OverBudget(idx)}
           /\ LET entries == OfKind(recs, "frequent_purchases")
              IN {entries[i].merchant : i \in DOMAIN entries} = Frequent(idx)

\* What the code does: the window has a lower bound only, start_date or 30
\* days before the clock reading, and end_date is not read.
C17_WindowHasLowerBoundOnly ==
    Replied("get_spending_recommendations") =>
        LET recs == result.data.recommendations
            idx == AnalysedExpenses(call.args, call.now)
        IN /\ result.data.analysis_period = Cardinality(idx)
           /\ SpentInAlerts(recs) =
                 {<<c, TotalOver(transactions_df, OfCategory(idx, c))>> : c \in OverBudget(idx)}
           /\ LET entries == OfKind(recs, "frequent_purchases")
              IN {entries[i].merchant : i \in DOMAIN entries} = Frequent(idx)

\* C18: every engine operation is a deterministic function of the ledger and
\* the arguments: the reply to a call is the only reply the same operation
\* can give to the same arguments over the same ledger, whatever the clock.
C18_ReplyDeterminedByLedgerAndArguments ==
    (call # NoCall /\ call.tool # "GET /transactions") =>
        \A now \in Clock :
            call_tool(transactions_df, call.tool, call.args, now) = {result}

\* The operations that neither read the clock, nor sort by a total, nor
\* render a figure do have a single reply.
C18_ListingBudgetAndTrendDetermined ==
    (call # NoCall /\ call.tool \in {"get_transactions", "get_budget_analysis",
                                     "get_trend_analysis", "get_balance"}) =>
        \A now \in Clock :
            call_tool(transactions_df, call.tool, call.args, now) = {result}

\* C18 for the clock alone: the reply to a call is a reply the operation can
\* give to the same arguments over the same ledger at every other time.
C18_ReplyIndependentOfClock ==
    (call # NoCall /\ call.tool # "GET /transactions") =>
        \A now \in Clock :
            result \in call_tool(transactions_df, call.tool, call.args, now)

\* C19: no query operation changes the ledger or the budget table: every
\* step of the engine leaves transactions_df as it was, and every budget
\* analysis still reads the budgets of the table.
LedgerUnchanged == transactions_df' = transactions_df

BudgetsAsInTable ==
    Replied("get_budget_analysis") =>
        /\ result.data.total_budget = SumBudgets(category_budgets)
        /\ \A i \in DOMAIN result.data.budget_analysis :
              result.data.budget_analysis[i].budget = category_budgets[i][2]

C19_QueriesLeaveLedgerAndBudgets ==
    [](BudgetsAsInTable) /\ [][LedgerUnchanged]_vars

\* A listing that returned fewer rows than the ledger holds.
C19_Witness ==
    /\ Replied("get_transactions")
    /\ transactions_df # <<>>
    /\ Len(result.data.transactions) < Len(transactions_df)

\* C20: invalid records are refused at ingestion and never enter a ledger:
\* after any sequence of POST /transactions and after loading the CSV file,
\* every stored transaction has an amount >= 0 and a date that is a calendar
\* date.
C20_LedgersHoldOnlyValidRecords ==
    /\ \A i \in DOMAIN data.transactions :
          /\ data.transactions[i].amount >= 0
          /\ DateParses(data.transactions[i].date)
    /\ \A i \in DOMAIN transactions_df :
          /\ transactions_df[i].amount >= 0
          /\ transactions_df[i].date \in 1..366

\* What POST /transactions does refuse: an income or expense whose date
\* strptime cannot read ends in status 500 and is not stored.
C20_UnreadableDateOfIncomeOrExpenseNotStored ==
    /\ \A i \in DOMAIN data.transactions :
          data.transactions[i].type \in {"income", "expense"}
             => DateParses(data.transactions[i].date)
    /\ (call.tool = "POST /transactions" /\ result.status = 500)
          => \A i \in DOMAIN data.transactions : data.transactions[i].date # "not-a-date"
                \/ data.transactions[i].type = "transfer"

\* C21: every analytic applies the whole filter before aggregating: called
\* with a filter specification over category, type, merchant and date range
\* it replies as it does without filter over the ledger of the matching
\* transactions.
WithoutFilter(args) ==
    [k \in DOMAIN args \ {"category", "type", "merchant", "start_date", "end_date"} |-> args[k]]

MatchingLedger(args) == SelectSeq(transactions_df, LAMBDA r : SatisfiesAll(r, args))

C21_AnalysesFilterBeforeAggregating ==
    (/\ call.tool \in AnalysisTools \cup {"generate_chart"}
     /\ DatesWellFormed(call.args)
     /\ TextColumnsHoldStrings(call.args))
    => result \in call_tool(MatchingLedger(call.args), call.tool,
                            WithoutFilter(call.args), call.now)

\* What the code does: the spending, budget, merchant and trend analyses
\* apply the date range, and only the date range, before aggregating.
DateRangeOnly(args) ==
    [k \in DOMAIN args \cap {"start_date", "end_date"} |-> args[k]]

C21_DateRangeAppliedBeforeAggregating ==
    (/\ call.tool \in AnalysisTools \ {"get_spending_recommendations"}
     /\ DatesWellFormed(call.args))
    => result \in call_tool(MatchingLedger(DateRangeOnly(call.args)), call.tool,
                            <<>>, call.now)

\* C22: transaction ids are unique: after any sequence of POST /transactions,
\* with or without an id in the request, no two stored transactions have the
\* same id, and the id of a stored transaction never changes.
C22_StoredIdsAreUnique ==
    \A i, j \in DOMAIN data.transactions :
        data.transactions[i].id = data.transactions[j].id => i = j

\* What the code does keep: a stored transaction is never rewritten, and a
\* generated id is above every stored id.
C22_StoredTransactionsKeepTheirIds ==
    [][/\ Len(data'.transactions) >= Len(data.transactions)
       /\ \A i \in DOMAIN data.transactions :
             data'.transactions[i].id = data.transactions[i].id
       /\ (call'.tool = "POST /transactions" /\ call'.args.id = <<>> /\ result'.status = 200)
             => \A i \in DOMAIN data.transactions :
                   data.transactions[i].id < result'.transaction.id]_vars

\* The names a caller may try on either side.
NamesTried ==
    {tools[i] : i \in DOMAIN tools} \cup {list_tools[i] : i \in DOMAIN list_tools}
        \cup {"get_balance", ""}

UnknownToolReply ==
    /\ DOMAIN result = {"success", "error"}
    /\ result.success = FALSE
    /\ result.error = "Unknown tool"

\* C23: the MCP client advertises at least 8 tools; on the client and on the
\* engine alike, a call of an advertised name is never answered with the
\* "Unknown tool" failure, and a call of a name that is not advertised is
\* answered (not raised) with success = false and the "Unknown tool" error.
C23_AdvertisedIsDispatched ==
    /\ Len(tools) >= 8
    /\ \A name \in NamesTried :
          call.tool = "mcp_client." \o name =>
              (UnknownToolReply <=> name \notin {tools[i] : i \in DOMAIN tools})
    /\ \A name \in NamesTried :
          call.tool = name =>
              (UnknownToolReply <=> name \notin {list_tools[i] : i \in DOMAIN list_tools})

C23_Witness ==
    /\ call.tool = "mcp_client.get_budget_analysis"
    /\ UnknownToolReply

\* Both sides have answered an advertised name with a success.
C23_AdvertisedAnswered ==
    call.tool \in {"mcp_client.generate_chart", "get_budget_analysis"} /\ result.success

\* The query holds a word in which chart, graph, visualization or plot
\* occurs, in any letter case.
AsksForChart(query) ==
    \E i \in DOMAIN query, w \in {"chart", "graph", "visualization", "plot"} :
        ReSearch(Chars[w], Chars[query[i]])

SaysChartSaved(part, chart) ==
    /\ DOMAIN part = {"says", "chart_type", "chart_path"}
    /\ part.says = "I've generated a chart for you! The chart has been saved to:"
    /\ part.chart_path = chart.chart_path

\* C24: for a query with one of the words chart, graph, visualization or
\* plot, analyze_query selects the one tool generate_chart with one of the
\* four chart types of the engine; process_query calls that tool alone, the
\* reply is never the "Unknown chart type" failure, and when the chart was
\* rendered the response says where it was saved.
C24_ChartQueriesGetAChart ==
    (call.tool = "process_query" /\ AsksForChart(call.args.user_query)) =>
        LET analysis == analyze_query(call.args.user_query, call.now)
            tool_results == result.tool_results
        IN /\ analysis.tools = <<"generate_chart">>
           /\ analysis.chart_type \in ChartTypes
           /\ Len(tool_results) = 1
           /\ tool_results[1].tool = "generate_chart"
           /\ ~tool_results[1].result.success =>
                  tool_results[1].result.error # "Unknown chart type"
           /\ tool_results[1].result.success =>
                  /\ tool_results[1].result.data.chart_type = analysis.chart_type
                  /\ Len(result.response) = 1
                  /\ SaysChartSaved(result.response[1], tool_results[1].result.data)

C24_Witness ==
    /\ call.tool = "process_query"
    /\ call.args.user_query = <<"budget", "Graph">>
    /\ result.tool_results[1].result.success
    /\ result.tool_results[1].result.data.chart_type = "budget_vs_actual"
    /\ SaysChartSaved(result.response[1], result.tool_results[1].result.data)

\* The expense rows the trend analysis is asked about: those of the ledger
\* within the date range of the call (a row without date is within no
\* range).
TrendExpenses ==
    {i \in DOMAIN transactions_df :
        /\ transactions_df[i].transaction_type = "expense"
        /\ Carries(call.args, "start_date") =>
              /\ transactions_df[i].date # NaT
              /\ transactions_df[i].date >= to_datetime(call.args["start_date"])
        /\ Carries(call.args, "end_date") =>
              /\ transactions_df[i].date # NaT
              /\ transactions_df[i].date <= to_datetime(call.args["end_date"])}

\* Day d lies in period k: the day itself, the week Monday..Sunday number k,
\* or the month number k of 2024.
InPeriod(d, freq, k) ==
    /\ d # NaT
    /\ CASE freq = "D" -> d = k
         [] freq = "W" -> 7 * (k - 1) < d /\ d <= 7 * k
         [] freq = "M" -> DaysBeforeMonth[k] < d /\ d <= DaysBeforeMonth[k + 1]

TrendSeries(freq) ==
    CASE freq = "D" -> result.data.daily_trend
      [] freq = "W" -> result.data.weekly_trend
      [] freq = "M" -> result.data.monthly_trend

\* A series has one bucket for each period holding an expense asked about
\* and for no other, and the bucket's value is the sum of those expenses.
BucketsAreThePeriodsWithExpenses(freq) ==
    LET series == TrendSeries(freq)
        within(k) == {i \in TrendExpenses : InPeriod(transactions_df[i].date, freq, k)}
    IN /\ \A i \in TrendExpenses :
             transactions_df[i].date # NaT =>
                 \E b \in DOMAIN series : InPeriod(transactions_df[i].date, freq, series[b][1])
       /\ \A b \in DOMAIN series :
             /\ within(series[b][1]) # {}
             /\ series[b][2] = TotalOver(transactions_df, within(series[b][1]))
       /\ \A b, c \in DOMAIN series : series[b][1] = series[c][1] => b = c

\* C25: the daily, weekly and monthly trends have a bucket for a period
\* exactly when a filtered expense falls in it, the bucket is the sum of the
\* expenses of its period, and the buckets of each series sum to the total
\* of the filtered expenses.
C25_BucketsSumToFilteredExpenses ==
    Replied("get_trend_analysis") =>
        \A freq \in {"D", "W", "M"} :
            /\ BucketsAreThePeriodsWithExpenses(freq)
            /\ SumSeries(TrendSeries(freq)) = TotalOver(transactions_df, TrendExpenses)

\* The part of C25 that holds: no bucket is synthesized, none is missing for
\* a period with an expense, and each bucket is the sum of its period.
C25_BucketsAreThePeriodsWithExpenses ==
    Replied("get_trend_analysis") =>
        \A freq \in {"D", "W", "M"} : BucketsAreThePeriodsWithExpenses(freq)

RECURSIVE Gcd(_, _)
Gcd(a, b) == IF b = 0 THEN a ELSE Gcd(b, a % b)

Abs(a) == IF a < 0 THEN 0 - a ELSE a

\* A quotient in lowest terms, with a positive denominator.
Lowest(q) ==
    LET g == Gcd(Abs(q.num), Abs(q.den))
        sign == IF q.den < 0 THEN 0 - 1 ELSE 1
    IN Frac(sign * (q.num \div g), sign * (q.den \div g))

\* Two quotients are the same number.
SameQuotient(p, q) == p.den # 0 /\ q.den # 0 /\ Lowest(p) = Lowest(q)

\* The growth rates the monthly series gives between calendar-consecutive
\* months that both have a bucket.
ConsecutiveMonthChanges(monthly) ==
    LET at == SelectSeq([i \in 1..(Len(monthly) - 1) |-> i],
                        LAMBDA i : monthly[i + 1][1] = monthly[i][1] + 1)
    IN [j \in DOMAIN at |->
          Frac(monthly[at[j] + 1][2] - monthly[at[j]][2], monthly[at[j]][2])]

\* C26: avg_monthly_growth is 0 with fewer than two monthly buckets;
\* otherwise it is the mean of the month-over-month changes between
\* calendar-consecutive months that both have a bucket, and two months
\* separated by a missing month contribute nothing.  (Stated for monthly
\* sums other than 0, where every change is a number.)
C26_GrowthOverConsecutiveMonths ==
    Replied("get_trend_analysis") =>
        LET monthly == result.data.monthly_trend
            growth == result.data.trend_metrics.avg_monthly_growth
            changes == ConsecutiveMonthChanges(monthly)
        IN /\ Len(monthly) < 2 => IsZero(growth)
           /\ (Len(monthly) >= 2 /\ \A i \in DOMAIN monthly : monthly[i][2] # 0) =>
                 IF changes = <<>> THEN IsZero(growth) \/ IsNaN(growth)
                 ELSE SameQuotient(growth,
                                   Frac(FracSum(changes).num,
                                        FracSum(changes).den * Len(changes)))

\* The part of C26 that holds: 0 with fewer than two monthly buckets, and the
\* mean of the changes when every bucket follows the month before it.
C26_GrowthWhenNoMonthIsMissing ==
    Replied("get_trend_analysis") =>
        LET monthly == result.data.monthly_trend
            growth == result.data.trend_metrics.avg_monthly_growth
            changes == ConsecutiveMonthChanges(monthly)
        IN /\ Len(monthly) < 2 => IsZero(growth)
           /\ (/\ Len(monthly) >= 2
               /\ \A i \in DOMAIN monthly : monthly[i][2] # 0
               /\ Len(changes) = Len(monthly) - 1) =>
                 SameQuotient(growth,
                              Frac(FracSum(changes).num, FracSum(changes).den * Len(changes)))

\* C27: spending_volatility is the population standard deviation of the
\* daily bucket sums: its square is sum((x - mean)^2) / n, which is
\* (n * sum(x^2) - sum(x)^2) / n^2, for n daily buckets; with one bucket it
\* is 0.
C27_VolatilityIsPopulationDeviation ==
    (Replied("get_trend_analysis") /\ Len(result.data.daily_trend) >= 1) =>
        LET daily == result.data.daily_trend
            n == Len(daily)
        IN SameQuotient(result.data.trend_metrics.spending_volatility_squared,
                        Frac(n * SumSquares(daily) - SumSeries(daily) * SumSeries(daily),
                             4 * n * n))

\* What the code computes instead, for two daily buckets and more: the
\* sample standard deviation, with n - 1 as the divisor.
C27_VolatilityIsSampleDeviation ==
    (Replied("get_trend_analysis") /\ Len(result.data.daily_trend) >= 2) =>
        LET daily == result.data.daily_trend
            n == Len(daily)
        IN SameQuotient(result.data.trend_metrics.spending_volatility_squared,
                        Frac(n * SumSquares(daily) - SumSeries(daily) * SumSeries(daily),
                             4 * n * (n - 1)))

ChartTypeOf(args) ==
    IF "chart_type" \in DOMAIN args THEN args["chart_type"] ELSE "category_breakdown"

\* C28: what a chart builder hands to the renderer keeps the order of the
\* aggregator: the category chart by total descending, equal totals by name;
\* the merchant chart by total descending; the trend chart by date; and the
\* same ledger always gives the same series.
C28_ChartSeriesKeepAggregatorOrder ==
    Replied("generate_chart") =>
        LET chart_type == ChartTypeOf(call.args)
            possible == ChartSeries(transactions_df, chart_type)
        IN /\ Cardinality(possible) = 1
           /\ \A series \in possible :
                 /\ chart_type = "category_breakdown" =>
                       OrderedByTotalThenName(series, LAMBDA p : p[2], LAMBDA p : p[1])
                 /\ chart_type = "merchant_analysis" =>
                       \A i \in 1..(Len(series) - 1) : series[i][2] >= series[i + 1][2]
                 /\ chart_type = "spending_trend" =>
                       \A i \in 1..(Len(series) - 1) : series[i][1] < series[i + 1][1]

\* The part of C28 that holds: the merchant chart is by total descending and
\* the trend chart by date.
C28_MerchantAndTrendOrder ==
    Replied("generate_chart") =>
        \A series \in ChartSeries(transactions_df, ChartTypeOf(call.args)) :
            /\ ChartTypeOf(call.args) = "merchant_analysis" =>
                  \A i \in 1..(Len(series) - 1) : series[i][2] >= series[i + 1][2]
            /\ ChartTypeOf(call.args) = "spending_trend" =>
                  \A i \in 1..(Len(series) - 1) : series[i][1] < series[i + 1][1]

\* The category chart lists its categories by name, whatever the totals.
C28_CategoryChartByName ==
    (Replied("generate_chart") /\ ChartTypeOf(call.args) = "category_breakdown") =>
        \A series \in ChartSeries(transactions_df, "category_breakdown") :
            \A i \in 1..(Len(series) - 1) : StrLess(series[i][1], series[i + 1][1])

\* The persisted budget entries agree with the persisted transactions.
BudgetsAgreeWithTransactions ==
    \A c \in DOMAIN data.budgets :
        LET spent == SumOfAmounts(SelectSeq(data.transactions,
                         LAMBDA t : t.type = "expense" /\ t.category = c))
        IN /\ data.budgets[c].current_spent = spent
           /\ data.budgets[c].remaining = data.budgets[c].monthly_limit - spent

\* The persisted analytics totals are the sums over the persisted
\* transactions (no analytics are persisted before the first transaction).
AnalyticsAgreeWithTransactions ==
    data.transactions # <<>> =>
        /\ data.analytics.total_income =
              SumOfAmounts(SelectSeq(data.transactions, LAMBDA t : t.type = "income"))
        /\ data.analytics.total_expenses =
              SumOfAmounts(SelectSeq(data.transactions, LAMBDA t : t.type = "expense"))
        /\ data.analytics.net_savings =
              data.analytics.total_income - data.analytics.total_expenses

\* C29: after any sequence of POST /transactions and POST /budget, every
\* persisted budget entry has current_spent = the sum of the persisted
\* expenses of its category and remaining = monthly_limit - current_spent,
\* and the persisted analytics totals are the sums over the persisted
\* transactions.
C29_DerivedStateFollowsTransactions ==
    BudgetsAgreeWithTransactions /\ AnalyticsAgreeWithTransactions

\* The part of C29 that holds: the analytics totals always agree, and the
\* budgets agree whenever the last mutation was a stored transaction.
C29_RecomputedOnAddTransaction ==
    /\ AnalyticsAgreeWithTransactions
    /\ (call.tool = "POST /transactions" /\ result.status = 200) =>
          BudgetsAgreeWithTransactions

\* The last n entries of a sequence, in order.
LastOf(seq, n) == IF Len(seq) <= n THEN seq ELSE SubSeq(seq, Len(seq) - n + 1, Len(seq))

\* C30: query_memory never holds more than max_memory (10) entries, and
\* after every add_to_memory it holds the most recently added entries in
\* the order they were added: the new entry last, and the oldest entry gone
\* when the memory was full.
C30_MemoryIsBoundedFifo ==
    /\ [](Len(query_memory) <= 10)
    /\ [][call'.tool = "add_to_memory" =>
             query_memory' = LastOf(Append(query_memory, call'.args), 10)]_vars

\* The eleventh entry has been added: the memory holds the second to the
\* eleventh, the first is gone.
C30_Witness ==
    /\ call.tool = "add_to_memory"
    /\ call.args.timestamp = 11
    /\ Len(query_memory) = 10
    /\ \A i \in 1..10 : query_memory[i].timestamp = i + 1
====
